---- MODULE Spec2Model ----
(***************************************************************************)
(* Model of the vulpi type checker core: hole cells, environments,        *)
(* evaluation and quotation, unification and higher-rank subsumption.      *)
(*                                                                         *)
(* Virtual types are tuples whose first component is the TypeKind tag:     *)
(*   <<"Type">> <<"Constraint">> <<"Error">> <<"Variable", q>>             *)
(*   <<"Bound", level>> <<"Hole", cell>> <<"Arrow", typ, body>>            *)
(*   <<"Tuple", <<t1, ..., tn>> >> <<"Application", f, a>>                 *)
(*   <<"Qualified", f, u>> <<"Forall", name, kind, closureEnv, realBody>>  *)
(* Real types use the same tags with <<"Bound", index>> and                *)
(*   <<"Forall", name, kind, realBody>>.                                   *)
(* A hole cell is <<"Empty", kind, level>> or                               *)
(* <<"Filled", type, writes, level>>; a hole is identified by the position *)
(* of its cell in the store `holes`, which also serves as its Symbol.      *)
(***************************************************************************)
EXTENDS Integers, Sequences, FiniteSets, TLC

VARIABLES holes, last, steps, parser, modules

vars == <<holes, last, steps, parser, modules>>

(* ------------------------------ bounds -------------------------------- *)

\* largest number of hole cells a behaviour may allocate
MaxHoles == 6

\* largest number of holes made by direct calls of Context::hole
MaxCreated == 2

\* largest number of holes solved before the recorded call
MaxSolved == 1

\* largest number of recorded checker calls in one behaviour
MaxSteps == 1

\* deepest environment level a call is made at
MaxLevel == 1

\* recursion depth after which a call is taken to exhaust the stack
MaxDepth == 12

\* largest number of arguments of an application
MaxArgs == 2

\* largest number of fields provided by a record instance
MaxFields == 3

\* largest number of binders an Env is extended with, one after another
MaxBinders == 3
MaxSttms == 3
MaxUpdates == 2
MaxTokens == 4
MaxCalls == 2
MaxPath == 2
MaxTypes == 2

(* ------------------------------ results ------------------------------- *)

Ok == <<"Ok">>

InfiniteType == <<"InfiniteType">>

EscapingScope == <<"EscapingScope">>

\* the recursion did not return within MaxDepth frames
Overflow == <<"Overflow">>

TypeMismatch(env, l, r) == <<"TypeMismatch", env, l, r>>

(* --------------------------- type constructors ------------------------ *)

TType == <<"Type">>

TConstraint == <<"Constraint">>

TError == <<"Error">>

TVar(q) == <<"Variable", q>>

TBound(l) == <<"Bound", l>>

THole(i) == <<"Hole", i>>

TArrow(a, b) == <<"Arrow", a, b>>

TTuple(ts) == <<"Tuple", ts>>

TApp(f, a) == <<"Application", f, a>>

TQual(f, u) == <<"Qualified", f, u>>

\* virtual Forall: the body is a Closure (env, real body)
TForall(name, kind, cenv, body) == <<"Forall", name, kind, cenv, body>>

\* real Forall
RForall(name, kind, body) == <<"Forall", name, kind, body>>

Tag(t) == t[1]

\* indexing Env.types outside its length aborts the checker
IndexOutOfBounds == <<"Panic">>

(* ------------------------------- Level -------------------------------- *)

\* outcome of to_index when the explicit panic fires
IndexPanic == -1

\* outcome of to_index when base - current - 1 underflows usize
IndexUnderflow == -2

ToIndex(base, current) ==
    IF base < current THEN IndexPanic
    ELSE IF base - current - 1 < 0 THEN IndexUnderflow
    ELSE base - current - 1

\* Level::from_index; the subtraction underflows when index >= base
FromIndex(base, index) ==
    IF base - index - 1 < 0 THEN IndexUnderflow ELSE base - index - 1

\* the panic! of to_index
ExplicitPanic == <<"Panic", "The base level is {} and the current level is {}">>

\* the panic of a debug build on base.0 - current.0 - 1 below zero
OverflowPanic == <<"Panic", "attempt to subtract with overflow">>

\* Index(usize::MAX), what a release build makes of 0 - 1
WrappedIndex == <<"Wrapped", "Index(usize::MAX)">>

\* the ways a call of to_index can end: an Index, the explicit panic, or,
\* when the subtraction underflows, what the build makes of it
ToIndexOutcomes(base, current) ==
    IF ToIndex(base, current) = IndexPanic THEN {ExplicitPanic}
    ELSE IF ToIndex(base, current) = IndexUnderflow THEN {OverflowPanic, WrappedIndex}
    ELSE {<<"Index", ToIndex(base, current)>>}

\* from_index(base, index) for the Index a call of to_index returned
BackToLevel(base, out) ==
    IF out[1] = "Index" /\ FromIndex(base, out[2]) # IndexUnderflow
    THEN <<"Level", FromIndex(base, out[2])>>
    ELSE <<"None">>

(* -------------------------------- Env --------------------------------- *)

DefaultEnv == [names |-> <<>>, types |-> <<>>, kinds |-> <<>>, level |-> 0]

\* Env::add without its push on the kinds stack
EnvAddForgetsKind(env, name, kind) ==
    [names |-> <<name>> \o env.names,
     types |-> <<TBound(env.level)>> \o env.types,
     kinds |-> env.kinds,
     level |-> env.level + 1]

\* Env::add: the bound variable of the current level is pushed as the type,
\* the second argument is pushed on the kinds stack.
EnvAdd(env, name, kind) ==
    [names |-> <<name>> \o env.names,
     types |-> <<TBound(env.level)>> \o env.types,
     kinds |-> <<kind>> \o env.kinds,
     level |-> env.level + 1]

\* Env::add_at_end: as add, with push_back
EnvAddAtEnd(env, name, kind) ==
    [names |-> Append(env.names, name),
     types |-> Append(env.types, TBound(env.level)),
     kinds |-> Append(env.kinds, kind),
     level |-> env.level + 1]

EnvDefine(env, name, typ, kind) ==
    [names |-> <<name>> \o env.names,
     types |-> <<typ>> \o env.types,
     kinds |-> <<kind>> \o env.kinds,
     level |-> env.level + 1]

\* Env::hole: a new Empty cell at the level of env, appended to the store
EnvHole(h, env, kind) == Append(h, <<"Empty", kind, env.level>>)

IsEmpty(h, i) == h[i][1] = "Empty"

(* ----------------------------- eval / deref --------------------------- *)

RECURSIVE Eval(_, _)
RECURSIVE EvalAll(_, _)

Eval(env, t) ==
    IF Tag(t) = "Bound" THEN
        IF t[2] >= 0 /\ t[2] < Len(env.types) THEN env.types[t[2] + 1] ELSE IndexOutOfBounds
    ELSE IF Tag(t) = "Forall" THEN TForall(t[2], Eval(env, t[3]), env, t[4])
    ELSE IF Tag(t) = "Arrow" THEN TArrow(Eval(env, t[2]), Eval(env, t[3]))
    ELSE IF Tag(t) = "Tuple" THEN TTuple(EvalAll(env, t[2]))
    ELSE IF Tag(t) = "Application" THEN TApp(Eval(env, t[2]), Eval(env, t[3]))
    ELSE IF Tag(t) = "Qualified" THEN TQual(Eval(env, t[2]), Eval(env, t[3]))
    ELSE t

EvalAll(env, ts) ==
    IF ts = <<>> THEN <<>> ELSE <<Eval(env, Head(ts))>> \o EvalAll(env, Tail(ts))

\* Closure::apply_local: the argument goes to Env::add, i.e. to the kinds
ApplyLocal(cenv, body, name, arg) == Eval(EnvAdd(cenv, name, arg), body)

\* Closure::apply: the argument is installed as the binder's type
Apply(cenv, body, name, arg, kind) == Eval(EnvDefine(cenv, name, arg, kind), body)

RECURSIVE Deref(_, _)

Deref(h, t) ==
    IF Tag(t) = "Hole" /\ h[t[2]][1] = "Filled" THEN Deref(h, h[t[2]][2]) ELSE t

\* Hole::fill; the cell keeps, for the record, the number of writes it has
\* received and the level it was created at
Fill(h, i, typ) ==
    [h EXCEPT ![i] = IF h[i][1] = "Empty" THEN <<"Filled", typ, 1, h[i][3]>>
                     ELSE <<"Filled", typ, h[i][3] + 1, h[i][4]>>]

(* -------------------------------- quote ------------------------------- *)

RECURSIVE Quote(_, _, _, _)
RECURSIVE QuoteAll(_, _, _, _)

Quote(h, level, t, fuel) ==
    IF fuel = 0 THEN Overflow
    ELSE IF Tag(t) = "Hole" THEN
        IF h[t[2]][1] = "Filled" THEN Quote(h, level, h[t[2]][2], fuel - 1) ELSE t
    ELSE IF Tag(t) = "Bound" THEN TBound(ToIndex(level, t[2]))
    ELSE IF Tag(t) = "Forall" THEN
        RForall(t[2], Quote(h, level, t[3], fuel - 1),
                Quote(h, level + 1, ApplyLocal(t[4], t[5], <<>>, TBound(level)), fuel - 1))
    ELSE IF Tag(t) = "Arrow" THEN
        TArrow(Quote(h, level, t[2], fuel - 1), Quote(h, level, t[3], fuel - 1))
    ELSE IF Tag(t) = "Tuple" THEN TTuple(QuoteAll(h, level, t[2], fuel - 1))
    ELSE IF Tag(t) = "Application" THEN
        TApp(Quote(h, level, t[2], fuel - 1), Quote(h, level, t[3], fuel - 1))
    ELSE IF Tag(t) = "Qualified" THEN
        TQual(Quote(h, level, t[2], fuel - 1), Quote(h, level, t[3], fuel - 1))
    ELSE t

QuoteAll(h, level, ts, fuel) ==
    IF ts = <<>> THEN <<>>
    ELSE <<Quote(h, level, Head(ts), fuel)>> \o QuoteAll(h, level, Tail(ts), fuel)

(* ------------------------------- occurs ------------------------------- *)

RECURSIVE Occurs(_, _, _, _, _, _)
RECURSIVE OccursAll(_, _, _, _, _, _)

Occurs(h, env, scope, hole, typ, fuel) ==
    IF fuel = 0 THEN Overflow ELSE
    LET t == Deref(h, typ) IN
    IF Tag(t) = "Arrow" THEN
        LET a == Occurs(h, env, scope, hole, t[2], fuel - 1) IN
        IF a # Ok THEN a ELSE Occurs(h, env, scope, hole, t[3], fuel - 1)
    ELSE IF Tag(t) = "Forall" THEN
        Occurs(h, env, scope, hole,
               ApplyLocal(t[4], t[5], <<>>, TBound(env.level)), fuel - 1)
    ELSE IF Tag(t) = "Hole" /\ t[2] = hole THEN InfiniteType
    ELSE IF Tag(t) = "Bound" /\ t[2] >= scope THEN EscapingScope
    ELSE IF Tag(t) = "Tuple" THEN OccursAll(h, env, scope, hole, t[2], fuel - 1)
    ELSE IF Tag(t) = "Application" THEN
        LET f == Occurs(h, env, scope, hole, t[2], fuel - 1) IN
        IF f # Ok THEN f ELSE Occurs(h, env, scope, hole, t[3], fuel - 1)
    ELSE Ok

OccursAll(h, env, scope, hole, ts, fuel) ==
    IF ts = <<>> THEN Ok
    ELSE LET x == Occurs(h, env, scope, hole, Head(ts), fuel) IN
         IF x # Ok THEN x ELSE OccursAll(h, env, scope, hole, Tail(ts), fuel)

(* -------------------------------- unify ------------------------------- *)

\* a call returns the store it leaves behind and its Result
Ret(h, e) == [holes |-> h, err |-> e]

RECURSIVE HasOverflow(_)

\* the quotation of a type did not return
HasOverflow(q) ==
    IF q = Overflow THEN TRUE
    ELSE IF Tag(q) \in {"Arrow", "Application", "Qualified"} THEN
        HasOverflow(q[2]) \/ HasOverflow(q[3])
    ELSE IF Tag(q) = "Forall" THEN HasOverflow(q[3]) \/ HasOverflow(q[4])
    ELSE IF Tag(q) = "Tuple" THEN \E i \in 1..Len(q[2]) : HasOverflow(q[2][i])
    ELSE FALSE

\* TypeMismatch(env.clone(), left.quote(env.level), right.quote(env.level))
Mismatch(h, env, left, right) ==
    LET ql == Quote(h, env.level, left, MaxDepth)
        qr == Quote(h, env.level, right, MaxDepth)
    IN IF HasOverflow(ql) \/ HasOverflow(qr) THEN Overflow
       ELSE TypeMismatch(env, ql, qr)

RECURSIVE Unify(_, _, _, _, _)
RECURSIVE UnifyAll(_, _, _, _, _)
RECURSIVE UnifyHole(_, _, _, _, _)

\* unify without its arm for Error: Error is a type like any other
UnifyErrorCascades(h, env, left, right, fuel) ==
    IF fuel = 0 THEN Ret(h, Overflow) ELSE
    LET l == Deref(h, left)
        r == Deref(h, right)
    IN
    IF Tag(l) = "Tuple" /\ Tag(r) = "Tuple" /\ Len(l[2]) = Len(r[2]) THEN
        UnifyAll(h, env, l[2], r[2], fuel - 1)
    ELSE IF Tag(l) = "Application" /\ Tag(r) = "Application" THEN
        LET u == Unify(h, env, l[2], r[2], fuel - 1) IN
        IF u.err # Ok THEN u ELSE Unify(u.holes, env, l[3], r[3], fuel - 1)
    ELSE IF Tag(l) = "Qualified" /\ Tag(r) = "Qualified" THEN
        LET u == Unify(h, env, l[2], r[2], fuel - 1) IN
        IF u.err # Ok THEN u ELSE Unify(u.holes, env, l[3], r[3], fuel - 1)
    ELSE IF Tag(l) = "Hole" /\ Tag(r) = "Hole" /\ l[2] = r[2] THEN Ret(h, Ok)
    ELSE IF Tag(l) = "Hole" THEN UnifyHole(h, env, l[2], r, fuel - 1)
    ELSE IF Tag(r) = "Hole" THEN UnifyHole(h, env, r[2], l, fuel - 1)
    ELSE IF Tag(l) = "Bound" /\ Tag(r) = "Bound" /\ l[2] = r[2] THEN Ret(h, Ok)
    ELSE IF Tag(l) = "Variable" /\ Tag(r) = "Variable" /\ l[2] = r[2] THEN Ret(h, Ok)
    ELSE IF Tag(l) = "Type" /\ Tag(r) = "Type" THEN Ret(h, Ok)
    ELSE IF Tag(l) = "Constraint" /\ Tag(r) = "Constraint" THEN Ret(h, Ok)
    ELSE Ret(h, Mismatch(h, env, left, right))

UnifyHole(h, env, hole, right, fuel) ==
    IF fuel = 0 THEN Ret(h, Overflow)
    ELSE IF h[hole][1] = "Empty" THEN
        LET r == Deref(h, right) IN
        IF Tag(r) = "Hole" /\ r[2] = hole THEN Ret(h, Ok)
        ELSE LET o == Occurs(h, env, h[hole][3], hole, right, fuel - 1) IN
             IF o # Ok THEN Ret(h, o) ELSE Ret(Fill(h, hole, right), Ok)
    ELSE Unify(h, env, h[hole][2], right, fuel - 1)

Unify(h, env, left, right, fuel) ==
    IF fuel = 0 THEN Ret(h, Overflow) ELSE
    LET l == Deref(h, left)
        r == Deref(h, right)
    IN
    IF Tag(l) = "Tuple" /\ Tag(r) = "Tuple" /\ Len(l[2]) = Len(r[2]) THEN
        UnifyAll(h, env, l[2], r[2], fuel - 1)
    ELSE IF Tag(l) = "Application" /\ Tag(r) = "Application" THEN
        LET u == Unify(h, env, l[2], r[2], fuel - 1) IN
        IF u.err # Ok THEN u ELSE Unify(u.holes, env, l[3], r[3], fuel - 1)
    ELSE IF Tag(l) = "Qualified" /\ Tag(r) = "Qualified" THEN
        LET u == Unify(h, env, l[2], r[2], fuel - 1) IN
        IF u.err # Ok THEN u ELSE Unify(u.holes, env, l[3], r[3], fuel - 1)
    ELSE IF Tag(l) = "Hole" /\ Tag(r) = "Hole" /\ l[2] = r[2] THEN Ret(h, Ok)
    ELSE IF Tag(l) = "Hole" THEN UnifyHole(h, env, l[2], r, fuel - 1)
    ELSE IF Tag(r) = "Hole" THEN UnifyHole(h, env, r[2], l, fuel - 1)
    ELSE IF Tag(l) = "Bound" /\ Tag(r) = "Bound" /\ l[2] = r[2] THEN Ret(h, Ok)
    ELSE IF Tag(l) = "Variable" /\ Tag(r) = "Variable" /\ l[2] = r[2] THEN Ret(h, Ok)
    ELSE IF Tag(l) = "Type" /\ Tag(r) = "Type" THEN Ret(h, Ok)
    ELSE IF Tag(l) = "Constraint" /\ Tag(r) = "Constraint" THEN Ret(h, Ok)
    ELSE IF Tag(l) = "Error" \/ Tag(r) = "Error" THEN Ret(h, Ok)
    ELSE Ret(h, Mismatch(h, env, left, right))

UnifyAll(h, env, xs, ys, fuel) ==
    IF xs = <<>> \/ ys = <<>> THEN Ret(h, Ok)
    ELSE LET u == Unify(h, env, Head(xs), Head(ys), fuel) IN
         IF u.err # Ok THEN u ELSE UnifyAll(u.holes, env, Tail(xs), Tail(ys), fuel)

(* ---------------------- instantiate / as_function --------------------- *)

\* a call that also returns a type
RetTy(h, t) == [holes |-> h, ty |-> t]

\* Context::instantiate: one fresh hole for the outermost Forall
Instantiate(h, env, ty) ==
    LET t == Deref(h, ty) IN
    IF Tag(t) = "Forall" THEN
        LET h1  == EnvHole(h, env, t[3])
            arg == THole(Len(h1))
        IN RetTy(h1, Apply(t[4], t[5], <<t[2]>>, arg, t[3]))
    ELSE RetTy(h, ty)

\* Context::hole
NewHole(h, env, kind) == RetTy(EnvHole(h, env, kind), THole(Len(h) + 1))

NoFunction == <<"None">>

RECURSIVE AsFunction(_, _, _, _)

\* as_function giving the two holes it invents the kind Type
AsFunctionOfType(h, env, typ, fuel) ==
    IF fuel = 0 THEN RetTy(h, Overflow) ELSE
    LET t == Deref(h, typ) IN
    IF Tag(t) = "Arrow" THEN RetTy(h, <<"Some", t[2], t[3]>>)
    ELSE IF Tag(t) = "Error" THEN RetTy(h, <<"Some", typ, typ>>)
    ELSE IF Tag(t) = "Forall" THEN
        LET i == Instantiate(h, env, typ) IN AsFunction(i.holes, env, i.ty, fuel - 1)
    ELSE IF Tag(t) = "Hole" THEN
        LET a == NewHole(h, env, TType)
            b == NewHole(a.holes, env, TType)
        IN RetTy(Fill(b.holes, t[2], TArrow(a.ty, b.ty)), <<"Some", a.ty, b.ty>>)
    ELSE RetTy(h, NoFunction)

\* Context::as_function; the result is Some(<<domain, codomain>>) or None
AsFunction(h, env, typ, fuel) ==
    IF fuel = 0 THEN RetTy(h, Overflow) ELSE
    LET t == Deref(h, typ) IN
    IF Tag(t) = "Arrow" THEN RetTy(h, <<"Some", t[2], t[3]>>)
    ELSE IF Tag(t) = "Error" THEN RetTy(h, <<"Some", typ, typ>>)
    ELSE IF Tag(t) = "Forall" THEN
        LET i == Instantiate(h, env, typ) IN AsFunction(i.holes, env, i.ty, fuel - 1)
    ELSE IF Tag(t) = "Hole" THEN
        LET kind == h[t[2]][2]
            a == NewHole(h, env, kind)
            b == NewHole(a.holes, env, kind)
        IN RetTy(Fill(b.holes, t[2], TArrow(a.ty, b.ty)), <<"Some", a.ty, b.ty>>)
    ELSE RetTy(h, NoFunction)

(* ------------------------------ subsumes ------------------------------ *)

RECURSIVE Go(_, _, _, _, _)
RECURSIVE SubHoleType(_, _, _, _, _)
RECURSIVE SubTypeHole(_, _, _, _, _)

\* the hole split by sub_hole_type / sub_type_hole: two holes of its kind
\* created at env.level, and the hole filled with the arrow between them
SplitHole(h, env, hole) ==
    LET kind   == h[hole][2]
        hole_a == NewHole(h, env, kind)
        hole_b == NewHole(hole_a.holes, env, kind)
    IN [holes |-> Fill(hole_b.holes, hole, TArrow(hole_a.ty, hole_b.ty)),
        a |-> hole_a.ty[2], b |-> hole_b.ty[2]]

\* the ? of `self.sub_type_hole(..)?; self.sub_hole_type(..)`
SubHoleTypeAfter(d, env, left, right, fuel) ==
    IF d.err # Ok THEN d ELSE SubHoleType(d.holes, env, left, right, fuel)

\* the ? of `self.sub_hole_type(..)?; self.sub_type_hole(..)`
SubTypeHoleAfter(d, env, left, right, fuel) ==
    IF d.err # Ok THEN d ELSE SubTypeHole(d.holes, env, left, right, fuel)

\* the Arrow arm of sub_hole_type, from the split store s
SubHoleArrow(s, env, r, fuel) ==
    SubHoleTypeAfter(SubTypeHole(s.holes, env, r[2], s.a, fuel), env, s.b, r[3], fuel)

\* the Arrow arm of sub_type_hole, from the split store s
SubArrowHole(s, env, l, fuel) ==
    SubTypeHoleAfter(SubHoleType(s.holes, env, s.a, l[2], fuel), env, l[3], s.b, fuel)

\* sub_type_hole continued on the instantiated left type
SubInstantiated(i, env, right, fuel) == SubTypeHole(i.holes, env, i.ty, right, fuel)

SubHoleType(h, env, left, right, fuel) ==
    IF fuel = 0 THEN Ret(h, Overflow) ELSE
    LET r == Deref(h, right) IN
    IF Tag(r) = "Forall" THEN
        SubHoleType(h, EnvAdd(env, <<r[2]>>, TBound(env.level)), left,
                    ApplyLocal(r[4], r[5], <<>>, TBound(env.level)), fuel - 1)
    ELSE IF Tag(r) = "Arrow" THEN SubHoleArrow(SplitHole(h, env, left), env, r, fuel - 1)
    ELSE UnifyHole(h, env, left, right, fuel - 1)

SubTypeHole(h, env, left, right, fuel) ==
    IF fuel = 0 THEN Ret(h, Overflow) ELSE
    LET l == Deref(h, left) IN
    IF Tag(l) = "Forall" THEN SubInstantiated(Instantiate(h, env, l), env, right, fuel - 1)
    ELSE IF Tag(l) = "Arrow" THEN SubArrowHole(SplitHole(h, env, right), env, l, fuel - 1)
    ELSE UnifyHole(h, env, right, left, fuel - 1)

\* the ? of `go(ctx, env, r.typ, l.typ)?; go(ctx, env, l.body, r.body)`
GoAfter(d, env, left, right, fuel) ==
    IF d.err # Ok THEN d ELSE Go(d.holes, env, left, right, fuel)

\* go continued on the instantiated left type
GoInstantiated(i, env, right, fuel) == Go(i.holes, env, i.ty, right, fuel)

\* go continued under the binder of the Forall r on the right
GoSkolemized(h, env, l, r, fuel) ==
    Go(h, EnvAdd(env, <<>>, TBound(env.level)), l,
       ApplyLocal(r[4], r[5], <<>>, TBound(env.level)), fuel)

\* go with a Forall on the left instantiated before a Forall on the right
\* is skolemized
GoInstantiateFirst(h, env, left, right, fuel) ==
    IF fuel = 0 THEN Ret(h, Overflow) ELSE
    LET l == Deref(h, left)
        r == Deref(h, right)
    IN
    IF Tag(l) = "Hole" /\ IsEmpty(h, l[2]) THEN SubHoleType(h, env, l[2], r, fuel - 1)
    ELSE IF Tag(r) = "Hole" /\ IsEmpty(h, r[2]) THEN SubTypeHole(h, env, l, r[2], fuel - 1)
    ELSE IF Tag(l) = "Arrow" /\ Tag(r) = "Arrow" THEN
        GoAfter(Go(h, env, r[2], l[2], fuel - 1), env, l[3], r[3], fuel - 1)
    ELSE IF Tag(l) = "Forall" THEN GoInstantiated(Instantiate(h, env, l), env, r, fuel - 1)
    ELSE IF Tag(r) = "Forall" THEN GoSkolemized(h, env, l, r, fuel - 1)
    ELSE Unify(h, env, l, r, fuel - 1)

\* go that instantiates a Forall on the right with a fresh hole instead of
\* a fresh Bound, and never instantiates the left
GoRightInstantiated(h, env, left, right, fuel) ==
    IF fuel = 0 THEN Ret(h, Overflow) ELSE
    LET l == Deref(h, left)
        r == Deref(h, right)
    IN
    IF Tag(l) = "Hole" /\ IsEmpty(h, l[2]) THEN SubHoleType(h, env, l[2], r, fuel - 1)
    ELSE IF Tag(r) = "Hole" /\ IsEmpty(h, r[2]) THEN SubTypeHole(h, env, l, r[2], fuel - 1)
    ELSE IF Tag(l) = "Arrow" /\ Tag(r) = "Arrow" THEN
        GoAfter(Go(h, env, r[2], l[2], fuel - 1), env, l[3], r[3], fuel - 1)
    ELSE IF Tag(r) = "Forall" THEN
        Go(Instantiate(h, env, r).holes, env, l, Instantiate(h, env, r).ty, fuel - 1)
    ELSE Unify(h, env, l, r, fuel - 1)

\* go with both sides of an arrow checked in order, the codomain first
GoCovariant(h, env, left, right, fuel) ==
    IF fuel = 0 THEN Ret(h, Overflow) ELSE
    LET l == Deref(h, left)
        r == Deref(h, right)
    IN
    IF Tag(l) = "Hole" /\ IsEmpty(h, l[2]) THEN SubHoleType(h, env, l[2], r, fuel - 1)
    ELSE IF Tag(r) = "Hole" /\ IsEmpty(h, r[2]) THEN SubTypeHole(h, env, l, r[2], fuel - 1)
    ELSE IF Tag(l) = "Arrow" /\ Tag(r) = "Arrow" THEN
        GoAfter(Go(h, env, l[3], r[3], fuel - 1), env, l[2], r[2], fuel - 1)
    ELSE IF Tag(r) = "Forall" THEN GoSkolemized(h, env, l, r, fuel - 1)
    ELSE IF Tag(l) = "Forall" THEN GoInstantiated(Instantiate(h, env, l), env, r, fuel - 1)
    ELSE Unify(h, env, l, r, fuel - 1)

\* the inner function go of Context::subsumes
Go(h, env, left, right, fuel) ==
    IF fuel = 0 THEN Ret(h, Overflow) ELSE
    LET l == Deref(h, left)
        r == Deref(h, right)
    IN
    IF Tag(l) = "Hole" /\ IsEmpty(h, l[2]) THEN SubHoleType(h, env, l[2], r, fuel - 1)
    ELSE IF Tag(r) = "Hole" /\ IsEmpty(h, r[2]) THEN SubTypeHole(h, env, l, r[2], fuel - 1)
    ELSE IF Tag(l) = "Arrow" /\ Tag(r) = "Arrow" THEN
        GoAfter(Go(h, env, r[2], l[2], fuel - 1), env, l[3], r[3], fuel - 1)
    ELSE IF Tag(r) = "Forall" THEN GoSkolemized(h, env, l, r, fuel - 1)
    ELSE IF Tag(l) = "Forall" THEN GoInstantiated(Instantiate(h, env, l), env, r, fuel - 1)
    ELSE Unify(h, env, l, r, fuel - 1)

\* the diagnostic subsumes reports for the error e of its derivation
Reported(hs, e, env, left, right) ==
    IF e = Ok \/ e = Overflow THEN <<>>
    ELSE IF e[1] = "TypeMismatch" THEN <<Mismatch(hs, env, left, right)>>
    ELSE <<e>>

\* the result of subsumes given the diagnostics rep it reports; building
\* a diagnostic that quotes a cyclic hole does not return
SubsumesResult(result, rep) ==
    IF rep = <<Overflow>> THEN [holes |-> result.holes, err |-> Overflow, reported |-> <<>>]
    ELSE [holes |-> result.holes, err |-> result.err, reported |-> rep]

\* the match on the result of go in Context::subsumes
SubsumesReport(result, env, left, right) ==
    SubsumesResult(result, Reported(result.holes, result.err, env, left, right))

\* subsumes reporting whatever error the derivation raised, as raised
SubsumesInnerError(h, env, left, right) ==
    SubsumesResult(Go(h, env, left, right, MaxDepth),
                   IF Go(h, env, left, right, MaxDepth).err \in {Ok, Overflow} THEN <<>>
                   ELSE <<Go(h, env, left, right, MaxDepth).err>>)

\* Context::subsumes: the store it leaves and the diagnostics it reports
Subsumes(h, env, left, right) ==
    SubsumesReport(Go(h, env, left, right, MaxDepth), env, left, right)

(* ----------------------------- generalize ----------------------------- *)

RECURSIVE GenGo(_, _, _, _, _)
RECURSIVE GenGoAll(_, _, _, _, _)

\* generalize::go binding every hole it meets, Filled or not
GenGoRefill(h, level, ty, new_vars, fuel) ==
    IF fuel = 0 THEN [holes |-> h, vars |-> new_vars, err |-> Overflow]
    ELSE IF Tag(ty) = "Arrow" THEN
        LET a == GenGo(h, level, ty[2], new_vars, fuel - 1) IN
        IF a.err # Ok THEN a ELSE GenGo(a.holes, level + 1, ty[3], a.vars, fuel - 1)
    ELSE IF Tag(ty) = "Forall" THEN
        LET k == GenGo(h, level, ty[3], new_vars, fuel - 1) IN
        IF k.err # Ok THEN k ELSE GenGo(k.holes, level + 1, ty[4], k.vars, fuel - 1)
    ELSE IF Tag(ty) = "Hole" THEN
        LET vs  == Append(new_vars, <<ToString(ty[2]), TType>>)
            arg == TBound(Len(vs) - 1 + level)
        IN [holes |-> Fill(h, ty[2], arg), vars |-> vs, err |-> Ok]
    ELSE IF Tag(ty) = "Tuple" THEN GenGoAll(h, level, ty[2], new_vars, fuel - 1)
    ELSE IF Tag(ty) = "Application" THEN
        LET f == GenGo(h, level, ty[2], new_vars, fuel - 1) IN
        IF f.err # Ok THEN f ELSE GenGo(f.holes, level, ty[3], f.vars, fuel - 1)
    ELSE [holes |-> h, vars |-> new_vars, err |-> Ok]

\* the inner function go of Context::generalize, on a real type; new_vars
\* is the sequence of <<name, kind>> collected so far
GenGo(h, level, ty, new_vars, fuel) ==
    IF fuel = 0 THEN [holes |-> h, vars |-> new_vars, err |-> Overflow]
    ELSE IF Tag(ty) = "Arrow" THEN
        LET a == GenGo(h, level, ty[2], new_vars, fuel - 1) IN
        IF a.err # Ok THEN a ELSE GenGo(a.holes, level + 1, ty[3], a.vars, fuel - 1)
    ELSE IF Tag(ty) = "Forall" THEN
        LET k == GenGo(h, level, ty[3], new_vars, fuel - 1) IN
        IF k.err # Ok THEN k ELSE GenGo(k.holes, level + 1, ty[4], k.vars, fuel - 1)
    ELSE IF Tag(ty) = "Hole" THEN
        IF h[ty[2]][1] = "Empty" THEN
            LET vs  == Append(new_vars, <<ToString(ty[2]), h[ty[2]][2]>>)
                arg == TBound(Len(vs) - 1 + level)
            IN [holes |-> Fill(h, ty[2], arg), vars |-> vs, err |-> Ok]
        ELSE GenGo(h, level, h[ty[2]][2], new_vars, fuel - 1)
    ELSE IF Tag(ty) = "Tuple" THEN GenGoAll(h, level, ty[2], new_vars, fuel - 1)
    ELSE IF Tag(ty) = "Application" THEN
        LET f == GenGo(h, level, ty[2], new_vars, fuel - 1) IN
        IF f.err # Ok THEN f ELSE GenGo(f.holes, level, ty[3], f.vars, fuel - 1)
    ELSE [holes |-> h, vars |-> new_vars, err |-> Ok]

GenGoAll(h, level, ts, new_vars, fuel) ==
    IF ts = <<>> THEN [holes |-> h, vars |-> new_vars, err |-> Ok]
    ELSE LET x == GenGo(h, level, Head(ts), new_vars, fuel) IN
         IF x.err # Ok THEN x ELSE GenGoAll(x.holes, level, Tail(ts), x.vars, fuel)

RECURSIVE WrapForalls(_, _)

\* vars.iter().fold(real, |rest, (name, kind)| Forall { name, kind, body: rest })
WrapForalls(real, vs) ==
    IF vs = <<>> THEN real
    ELSE WrapForalls(RForall(Head(vs)[1], Head(vs)[2], real), Tail(vs))

\* Context::generalize
Generalize(h, env, ty) ==
    LET real == Quote(h, env.level, ty, MaxDepth) IN
    IF HasOverflow(real) THEN RetTy(h, Overflow)
    ELSE LET g == GenGo(h, env.level, real, <<>>, MaxDepth) IN
         IF g.err # Ok THEN RetTy(g.holes, Overflow)
         ELSE RetTy(g.holes, Eval(env, WrapForalls(real, g.vars)))

(* ----------------------------- scoping -------------------------------- *)

RECURSIVE Mentions(_, _, _, _)
RECURSIVE MentionsReal(_, _, _, _, _, _)

\* t, followed through Filled holes, contains a Bound(l) with l >= lvl
Mentions(h, t, lvl, seen) ==
    IF Tag(t) = "Bound" THEN t[2] >= lvl
    ELSE IF Tag(t) = "Hole" THEN
        /\ h[t[2]][1] = "Filled"
        /\ t[2] \notin seen
        /\ Mentions(h, h[t[2]][2], lvl, seen \cup {t[2]})
    ELSE IF Tag(t) \in {"Arrow", "Application", "Qualified"} THEN
        Mentions(h, t[2], lvl, seen) \/ Mentions(h, t[3], lvl, seen)
    ELSE IF Tag(t) = "Tuple" THEN \E i \in 1..Len(t[2]) : Mentions(h, t[2][i], lvl, seen)
    ELSE IF Tag(t) = "Forall" THEN MentionsReal(h, t[4], t[5], 1, lvl, seen)
    ELSE FALSE

\* the same for a closure body: its free indices denote entries of cenv
MentionsReal(h, cenv, body, depth, lvl, seen) ==
    IF Tag(body) = "Bound" THEN
        /\ body[2] >= depth
        /\ body[2] - depth < Len(cenv.types)
        /\ Mentions(h, cenv.types[body[2] - depth + 1], lvl, seen)
    ELSE IF Tag(body) = "Hole" THEN Mentions(h, body, lvl, seen)
    ELSE IF Tag(body) \in {"Arrow", "Application", "Qualified"} THEN
        \/ MentionsReal(h, cenv, body[2], depth, lvl, seen)
        \/ MentionsReal(h, cenv, body[3], depth, lvl, seen)
    ELSE IF Tag(body) = "Tuple" THEN
        \E i \in 1..Len(body[2]) : MentionsReal(h, cenv, body[2][i], depth, lvl, seen)
    ELSE IF Tag(body) = "Forall" THEN MentionsReal(h, cenv, body[4], depth + 1, lvl, seen)
    ELSE FALSE

\* t is well scoped in env: every Bound it mentions is below env.level
WellScoped(h, env, t) == ~Mentions(h, t, env.level, {})

(* ------------------------- infer: application ------------------------- *)

\* expressions: a variable of the Env with its type, and an application
Variable(t) == <<"Variable", t>>

Application(func, args) == <<"Application", func, args>>

\* elaborated::ExprKind::Error
ErrorNode == <<"ErrorNode">>

NotAFunction(env, t) == <<"NotAFunction", env, t>>

\* what infer returns: the store, the diagnostics reported, the type and
\* the elaborated node; for an application also the types as_function was
\* asked about, in order, and the number of arguments handed to check
Inferred(h, err, rep, typ, elab, seen, checked) ==
    [holes |-> h, err |-> err, reported |-> rep, typ |-> typ, elab |-> elab,
     seen |-> seen, checked |-> checked]

RECURSIVE Infer(_, _, _)
RECURSIVE ApplicationArgs(_, _, _, _, _, _, _, _)

\* check by its default: the diagnostics of infer, then those of subsumes
CheckSubsumed(i, s) ==
    [holes |-> s.holes,
     err |-> IF i.err = Overflow \/ s.err = Overflow THEN Overflow ELSE Ok,
     reported |-> i.reported \o s.reported,
     elab |-> i.elab]

CheckInferred(i, env, expected) ==
    CheckSubsumed(i, Subsumes(i.holes, env, i.typ, expected))

\* Check::check: infer followed by subsumes(inferred, expected)
Check(h, env, expr, expected) == CheckInferred(Infer(h, env, expr), env, expected)

RECURSIVE ElabApplication(_, _, _)

\* the fold that wraps func_elab in one Application node for each argument
ElabApplication(typ, acc, elab_args) ==
    IF elab_args = <<>> THEN acc
    ELSE ElabApplication(typ, <<"Application", typ, acc, Head(elab_args)>>, Tail(elab_args))

\* the else branch of the loop: report NotAFunction and return Error
ApplicationStuck(h, env, quoted, rep, seen, checked) ==
    IF HasOverflow(quoted) THEN Inferred(h, Overflow, rep, TError, ErrorNode, seen, checked)
    ELSE Inferred(h, Ok, Append(rep, NotAFunction(env, quoted)), TError, ErrorNode, seen, checked)

\* the loop after this argument was checked: carry on with the codomain
ApplicationChecked(c, env, right, args, rep, func_elab, elab_args, seen) ==
    IF c.err = Overflow
    THEN Inferred(c.holes, Overflow, rep, TError, ErrorNode, seen, Len(elab_args) + 1)
    ELSE ApplicationArgs(c.holes, env, right, args, rep \o c.reported, func_elab,
                         Append(elab_args, c.elab), seen)

\* the loop reporting NotAFunction and going on to the next argument
ApplicationArgKeepsGoing(f, env, typ, args, rep, func_elab, elab_args, seen) ==
    IF f.ty = Overflow
    THEN Inferred(f.holes, Overflow, rep, TError, ErrorNode, seen, Len(elab_args))
    ELSE IF f.ty = NoFunction
    THEN ApplicationArgs(f.holes, env, typ, Tail(args),
                         Append(rep, NotAFunction(env, Quote(f.holes, env.level, typ, MaxDepth))),
                         func_elab, elab_args, seen)
    ELSE ApplicationChecked(Check(f.holes, env, Head(args), f.ty[2]), env, f.ty[3],
                            Tail(args), rep, func_elab, elab_args, seen)

\* one turn of the loop, given what as_function said of the current type
ApplicationArg(f, env, typ, args, rep, func_elab, elab_args, seen) ==
    IF f.ty = Overflow
    THEN Inferred(f.holes, Overflow, rep, TError, ErrorNode, seen, Len(elab_args))
    ELSE IF f.ty = NoFunction
    THEN ApplicationStuck(f.holes, env, Quote(f.holes, env.level, typ, MaxDepth), rep,
                          seen, Len(elab_args))
    ELSE ApplicationChecked(Check(f.holes, env, Head(args), f.ty[2]), env, f.ty[3],
                            Tail(args), rep, func_elab, elab_args, seen)

\* the end of the loop: the type left over and the Application nodes
ApplicationDone(h, quoted, typ, rep, func_elab, elab_args, seen) ==
    IF HasOverflow(quoted) /\ elab_args # <<>>
    THEN Inferred(h, Overflow, rep, TError, ErrorNode, seen, Len(elab_args))
    ELSE Inferred(h, Ok, rep, typ, ElabApplication(quoted, func_elab, elab_args), seen,
                  Len(elab_args))

\* for arg in &app.args { ... }
ApplicationArgs(h, env, typ, args, rep, func_elab, elab_args, seen) ==
    IF args = <<>>
    THEN ApplicationDone(h, Quote(h, env.level, typ, MaxDepth), typ, rep, func_elab,
                         elab_args, seen)
    ELSE ApplicationArg(AsFunction(h, env, Deref(h, typ), MaxDepth), env, typ, args, rep,
                        func_elab, elab_args, Append(seen, Deref(h, typ)))

\* the loop started on what infer returned for app.func
ApplicationOf(f, env, args) ==
    IF f.err = Overflow THEN f
    ELSE ApplicationArgs(f.holes, env, f.typ, args, f.reported, f.elab, <<>>, <<>>)

\* an expression with the Real type it is annotated with
Annotation(expr, typ) == <<"Annotation", expr, typ>>

\* the result of an annotation: the annotated type, evaluated, and the
\* elaborated form of the expression, whatever subsumes returned
AnnotationSubsumed(i, s, right) ==
    Inferred(s.holes, IF s.err = Overflow THEN Overflow ELSE Ok,
             i.reported \o s.reported, right, i.elab, <<>>, 0)

\* ExprKind::Annotation once ann.expr is inferred
AnnotationOf(i, env, right) ==
    IF i.err = Overflow THEN i
    ELSE AnnotationSubsumed(i, Subsumes(i.holes, env, i.typ, right), right)

\* Infer for Expr: ExprKind::Variable, Application and Annotation
Infer(h, env, expr) ==
    IF expr[1] = "Variable"
    THEN Inferred(h, Ok, <<>>, expr[2], <<"Variable">>, <<>>, 0)
    ELSE IF expr[1] = "Annotation"
    THEN AnnotationOf(Infer(h, env, expr[2]), env, Eval(env, expr[3]))
    ELSE ApplicationOf(Infer(h, env, expr[2]), env, expr[3])

(* ------------------------------ infer: do ----------------------------- *)

\* the Let arm of Sttm::infer binding the pattern before it checks the expression
SttmLetBindsFirst(p, env, evars, x, expr) ==
    CHOOSE out \in
        {[holes |-> c.holes, err |-> c.err, reported |-> c.reported,
          typ |-> IF c.err = Ok THEN TTuple(<<>>) ELSE TError,
          evars |-> IF c.err = Ok THEN [evars EXCEPT ![x] = p.ty] ELSE evars,
          saw |-> p.ty]
         : c \in {Check(p.holes, env, Variable(p.ty), p.ty)}} : TRUE

\* the Let arm of Sttm::infer, the variable pattern x inferred as p and the
\* expression the name expr[2]: the name is looked up in env.vars (evars,
\* <<"Unbound">> where the map has no entry, on which unwrap panics), the
\* expression is checked against the type of the pattern, and only then is
\* the binding of the pattern added.  typ is the type returned, evars the
\* vars of the Env returned, saw the type the name was looked up as.
SttmLetOf(p, env, evars, x, expr) ==
    IF evars[expr[2]] = <<"Unbound">>
    THEN [holes |-> p.holes, err |-> <<"Panic", "called Option::unwrap() on a None value">>,
          reported |-> <<>>, typ |-> TError, evars |-> evars, saw |-> <<"Unbound">>]
    ELSE CHOOSE out \in
        {[holes |-> c.holes, err |-> c.err, reported |-> c.reported,
          typ |-> IF c.err = Ok THEN TTuple(<<>>) ELSE TError,
          evars |-> IF c.err = Ok THEN [evars EXCEPT ![x] = p.ty] ELSE evars,
          saw |-> evars[expr[2]]]
         : c \in {Check(p.holes, env, Variable(evars[expr[2]]), p.ty)}} : TRUE

\* the Do arm of Infer for Expr over the statements of block, with Infer for
\* Sttm: a statement is <<"Let", x, <<"Name", n>> >> or <<"Expr", <<"Name", n>> >>,
\* a variable pattern infers as a fresh hole of kind Type, and the loop
\* starts at the empty tuple and carries the type and the Env of each
\* statement into the next
InferDo(h, env, evars, block) ==
    LET InferSttm(hs, vs, sttm) ==
            IF sttm[1] = "Let"
            THEN SttmLetOf(NewHole(hs, env, TType), env, vs, sttm[2], sttm[3])
            ELSE IF vs[sttm[2][2]] = <<"Unbound">>
            THEN [holes |-> hs, err |-> <<"Panic", "called Option::unwrap() on a None value">>,
                  reported |-> <<>>, typ |-> TError, evars |-> vs, saw |-> <<"Unbound">>]
            ELSE [holes |-> hs, err |-> Ok, reported |-> <<>>,
                  typ |-> Infer(hs, env, Variable(vs[sttm[2][2]])).typ,
                  evars |-> vs, saw |-> vs[sttm[2][2]]]
        RECURSIVE InferSttms(_, _, _, _, _, _)
        InferSttms(hs, vs, sttms, ty, rep, saw) ==
            IF sttms = <<>>
            THEN [holes |-> hs, err |-> Ok, reported |-> rep, typ |-> ty, evars |-> vs, saw |-> saw]
            ELSE CHOOSE out \in
                {IF r.err # Ok
                 THEN [holes |-> r.holes, err |-> r.err, reported |-> rep \o r.reported,
                       typ |-> TError, evars |-> r.evars, saw |-> Append(saw, r.saw)]
                 ELSE InferSttms(r.holes, r.evars, Tail(sttms), r.typ,
                                 rep \o r.reported, Append(saw, r.saw))
                 : r \in {InferSttm(hs, vs, Head(sttms))}} : TRUE
    IN InferSttms(h, evars, block, TTuple(<<>>), <<>>, <<>>)

(* --------------------------- inputs of calls -------------------------- *)

RECURSIVE EnvAt(_)

\* the Env reached from the default Env by n binders
EnvAt(n) == IF n = 0 THEN DefaultEnv ELSE EnvAdd(EnvAt(n - 1), <<>>, TType)

Envs == {EnvAt(n) : n \in 0..MaxLevel}

TInt == TVar("Int")

Kinds == {TType}

\* real bodies of the polymorphic types handed to the checker
Bodies == {TBound(0), TArrow(TBound(0), TBound(0))}

\* forall a. body, evaluated under an Env that is env or one of its prefixes
Polys(env) == {TForall("a", TType, EnvAt(k), b) : k \in 0..env.level, b \in Bodies}

Atoms(h, env) ==
    {TInt} \cup {TBound(l) : l \in 0..(env.level - 1)} \cup {THole(i) : i \in 1..Len(h)}

Compounds(h, env) ==
    LET A == Atoms(h, env) IN
    {TArrow(x, y) : x \in A, y \in A}
    \cup {TTuple(<<x>>) : x \in A}
    \cup {TApp(TVar("List"), x) : x \in A}
    \cup {TQual(x, TInt) : x \in A}

\* arrows with forall a. a on one side
Nested(env) ==
    LET P == {TForall("a", TType, EnvAt(k), TBound(0)) : k \in 0..env.level} IN
    {TArrow(TInt, p) : p \in P} \cup {TArrow(p, TInt) : p \in P}

\* forall a. forall b. a -> b, evaluated under env or one of its prefixes
Prenex(env) ==
    {TForall("a", TType, EnvAt(k), RForall("b", TType, TArrow(TBound(1), TBound(0)))) :
        k \in 0..env.level}

\* the types a call is made with: well scoped in env, over the cells of h
Types(h, env) ==
    Atoms(h, env) \cup Compounds(h, env) \cup Polys(env) \cup Nested(env) \cup {TError}

\* every kind of type, to be met with Error
Wide(h, env) ==
    Types(h, env) \cup {TType, TConstraint, TTuple(<<TInt, TInt>>), TTuple(<<>>)}

\* the types as_function, instantiate and generalize are called with
Singles(h, env) == Types(h, env) \cup Prenex(env)

\* the pairs a call is made with, Error against every kind of type, a type
\* with an Arrow below the top against itself, and pairs of two components
\* of which the first solves a hole and the second differs
Pairs(h, env) ==
    (Types(h, env) \X Types(h, env))
    \cup ({TError} \X Wide(h, env)) \cup (Wide(h, env) \X {TError})
    \cup {<<t, t>> : t \in {TTuple(<<TArrow(TInt, TInt)>>), TApp(TVar("List"), TArrow(TInt, TInt))}}
    \cup {<<TTuple(<<THole(i), TInt>>), TTuple(<<TInt, TVar("Bool")>>)>> : i \in 1..Len(h)}
    \cup {<<TApp(THole(i), TInt), TApp(TVar("List"), TVar("Bool"))>> : i \in 1..Len(h)}

\* the argument lists of an application: variables of the Env
Args(h, env) ==
    LET V == {Variable(t) : t \in Atoms(h, env)} IN
    UNION {[1..n -> V] : n \in 1..MaxArgs}

\* the functions applied: a variable of any type, or an application of one
Funcs(h, env) ==
    {Variable(t) : t \in Singles(h, env) \cup {TArrow(TInt, TArrow(TInt, TInt))}}
    \cup {Application(Variable(t), <<Variable(a)>>) :
            t \in {TInt, TArrow(TInt, TInt), TArrow(TInt, TArrow(TInt, TInt))},
            a \in {TInt} \cup {THole(i) : i \in 1..Len(h)}}

\* the types an Empty hole is solved with before the recorded call
Seeds(h, env) ==
    Atoms(h, env)
    \cup {TError, TArrow(TInt, TInt), TForall("a", TType, env, TArrow(TBound(0), TBound(0)))}
    \cup {TQual(THole(i), TInt) : i \in 1..Len(h)}

(* ----------------------- infer: record instance ----------------------- *)

NotFoundField == <<"NotFoundField">>

DuplicatedField == <<"DuplicatedField">>

MissingField(f) == <<"MissingField", f>>

\* what the loop over the provided fields leaves: the store, the
\* diagnostics, the accepted names and the elaborated fields
Fielded(h, err, rep, used, elab_fields) ==
    [holes |-> h, err |-> err, reported |-> rep, used |-> used, elab_fields |-> elab_fields]

RECURSIVE RecordFields(_, _, _, _, _, _, _)

\* a field that was checked is pushed to elab_fields and inserted in used
RecordFieldChecked(c, env, available, name, fields, used, rep, elab_fields) ==
    IF c.err = Overflow THEN Fielded(c.holes, Overflow, rep, used, elab_fields)
    ELSE RecordFields(c.holes, env, available, fields, used \cup {name},
                      rep \o c.reported, Append(elab_fields, <<name, c.elab>>))

\* the loop without its test of used: a field provided again is checked again
RecordFieldsUnguarded(h, env, available, fields, used, rep, elab_fields) ==
    IF fields = <<>> THEN Fielded(h, Ok, rep, used, elab_fields)
    ELSE IF Head(fields)[1] \notin DOMAIN available
    THEN RecordFields(h, env, available, Tail(fields), used,
                      Append(rep, NotFoundField), elab_fields)
    ELSE RecordFieldChecked(
            Check(h, env, Head(fields)[2], Eval(env, available[Head(fields)[1]])),
            env, available, Head(fields)[1], Tail(fields), used, rep, elab_fields)

\* for (span, name, expr) in &instance.fields; available maps the declared
\* names to the types of their fields
RecordFields(h, env, available, fields, used, rep, elab_fields) ==
    IF fields = <<>> THEN Fielded(h, Ok, rep, used, elab_fields)
    ELSE IF Head(fields)[1] \notin DOMAIN available
    THEN RecordFields(h, env, available, Tail(fields), used,
                      Append(rep, NotFoundField), elab_fields)
    ELSE IF Head(fields)[1] \in used
    THEN RecordFields(h, env, available, Tail(fields), used,
                      Append(rep, DuplicatedField), elab_fields)
    ELSE RecordFieldChecked(
            Check(h, env, Head(fields)[2], Eval(env, available[Head(fields)[1]])),
            env, available, Head(fields)[1], Tail(fields), used, rep, elab_fields)

\* im_rc's HashSet::difference: the elements of one set only
Difference(a, b) == (a \ b) \cup (b \ a)

RECURSIVE ReportMissing(_, _)

\* for key in diff { report MissingField(key) }, diff iterated as order
ReportMissing(rep, order) ==
    IF order = <<>> THEN rep
    ELSE ReportMissing(Append(rep, MissingField(Head(order))), Tail(order))

\* the orders in which a set may be iterated
Orders(S) == {o \in [1..Cardinality(S) -> S] : \A x \in S : \E k \in DOMAIN o : o[k] = x}

\* the end of ExprKind::RecordInstance: the missing fields, the type of the
\* record and its elaborated node
RecordDone(f, name, order) ==
    IF f.err = Overflow THEN Inferred(f.holes, Overflow, f.reported, TError, ErrorNode, <<>>, 0)
    ELSE Inferred(f.holes, Ok, ReportMissing(f.reported, order), TVar(name),
                  <<"RecordInstance", name, f.elab_fields>>, <<>>, Len(f.elab_fields))

\* ExprKind::RecordInstance for a record type without parameters
RecordInstance(h, env, name, available, fields) ==
    RecordFields(h, env, available, fields, {}, <<>>, <<>>)

(* ---------------- infer: projection and record update ---------------- *)

\* the Projection and RecordUpdate arms of Infer for Expr, the expression
\* a variable of type ty and expr <<"Projection", field>> or
\* <<"RecordUpdate", fields>>.  Type::application_spine (SpineOf)
\* dereferences current for the test of the loop only and returns the
\* arguments in the order they are written; a projection takes the spine of
\* the type as it is, an update of the type dereferenced.  The declared
\* records are Box a, whose field x has the type a, kept as forall a. a, and
\* Point; instantiate_with_arguments opens one Forall for each argument.
\* head and spine are what application_spine returned.
InferRecord(h, env, ty, expr) ==
    LET RecordDefs ==
            [Box |-> [x |-> RForall("a", TType, TBound(0)), y |-> TInt],
             Point |-> [x |-> TInt, y |-> TInt]]
        RECURSIVE SpineOf(_, _)
        SpineOf(current, spine) ==
            IF Tag(Deref(h, current)) = "Application"
            THEN SpineOf(Deref(h, current)[2], <<Deref(h, current)[3]>> \o spine)
            ELSE [head |-> current, spine |-> spine]
        sp == SpineOf(IF expr[1] = "Projection" THEN ty ELSE Deref(h, ty), <<>>)
        RECURSIVE InstantiateWithArguments(_, _, _)
        InstantiateWithArguments(hs, t, args) ==
            IF args = <<>> \/ Tag(Deref(hs, t)) # "Forall" THEN t
            ELSE InstantiateWithArguments(
                    hs, Apply(Deref(hs, t)[4], Deref(hs, t)[5], <<Deref(hs, t)[2]>>,
                              Head(args), Deref(hs, t)[3]),
                    Tail(args))
        RECURSIVE TypeApplication(_, _)
        TypeApplication(head, args) ==
            IF args = <<>> THEN head ELSE TypeApplication(TApp(head, Head(args)), Tail(args))
        Spined(hs, err, rep, t, elab) ==
            [holes |-> hs, err |-> err, reported |-> rep, typ |-> t, elab |-> elab,
             head |-> sp.head, spine |-> sp.spine]
        RECURSIVE UpdateFields(_, _, _, _, _, _)
        \* for (span, name, expr) in &update.fields
        UpdateFields(hs, available, fields, used, rep, elab_fields) ==
            IF fields = <<>> THEN Fielded(hs, Ok, rep, used, elab_fields)
            ELSE IF Head(fields)[1] \notin DOMAIN available
            THEN UpdateFields(hs, available, Tail(fields), used,
                              Append(rep, NotFoundField), elab_fields)
            ELSE IF Head(fields)[1] \in used
            THEN UpdateFields(hs, available, Tail(fields), used,
                              Append(rep, DuplicatedField), elab_fields)
            ELSE CHOOSE out \in
                {IF c.err = Overflow THEN Fielded(c.holes, Overflow, rep, used, elab_fields)
                 ELSE UpdateFields(c.holes, available, Tail(fields),
                                   used \cup {Head(fields)[1]}, rep \o c.reported,
                                   Append(elab_fields, <<Head(fields)[1], c.elab>>))
                 : c \in {Check(hs, env, Head(fields)[2],
                                InstantiateWithArguments(
                                    hs, Eval(env, available[Head(fields)[1]]), sp.spine))}}
                : TRUE
    IN
    IF ~(Tag(sp.head) = "Variable" /\ sp.head[2] \in DOMAIN RecordDefs)
    THEN Spined(h, Ok, << <<"NotARecord">> >>, TError, ErrorNode)
    ELSE IF expr[1] = "Projection"
    THEN IF expr[2] \notin DOMAIN RecordDefs[sp.head[2]]
         THEN Spined(h, Ok, <<NotFoundField>>, TError, ErrorNode)
         ELSE Spined(h, Ok, <<>>,
                     InstantiateWithArguments(h, Eval(env, RecordDefs[sp.head[2]][expr[2]]),
                                              sp.spine),
                     <<"Projection", expr[2]>>)
    ELSE CHOOSE out \in
        {Spined(f.holes, f.err, f.reported,
                IF f.err = Overflow THEN TError ELSE TypeApplication(sp.head, sp.spine),
                <<"RecordUpdate", sp.head[2], f.elab_fields>>)
         : f \in {UpdateFields(h, RecordDefs[sp.head[2]], expr[2], {}, <<>>, <<>>)}} : TRUE

(* ------------------------------ resolver ------------------------------ *)

RECURSIVE Find(_, _)

\* ModuleTree::find; a tree is its name and children, the set of the
\* pairs <<symbol, subtree>>, and an Option is <<"Some", id>> or <<"None">>
Find(tree, path) ==
    IF path = <<>> THEN <<"Some", tree.name>>
    ELSE IF \E c \in tree.children : c[1] = Head(path)
    THEN Find((CHOOSE c \in tree.children : c[1] = Head(path))[2], Tail(path))
    ELSE <<"None">>

RECURSIVE Insert(_, _, _)

\* ModuleTree::insert: the tree it leaves and the Option it returns; an
\* entry for the first segment is changed in place by child.insert(tail, id),
\* a vacant one gets ModuleTree::new(id)
Insert(tree, path, id) ==
    IF path = <<>> THEN [tree |-> tree, ret |-> <<"Some", tree.name>>]
    ELSE IF \E c \in tree.children : c[1] = Head(path)
    THEN CHOOSE out \in
        {[tree |-> [tree EXCEPT !.children = (@ \ {c}) \cup {<<c[1], r.tree>>}],
          ret |-> r.ret]
         : c \in {d \in tree.children : d[1] = Head(path)},
           r \in {Insert((CHOOSE d \in tree.children : d[1] = Head(path))[2],
                         Tail(path), id)}} : TRUE
    ELSE [tree |-> [tree EXCEPT !.children =
                        @ \cup {<<Head(path), [name |-> id, children |-> {}]>>}],
          ret |-> <<"None">>]

\* declare(context, program, path) and declare_main(context, program), by
\* name, with Modules::add_module and current and Declare for Program,
\* TypeDecl, Vec<Variant>, Variant and LetDecl.  A panic ends the operation:
\* pc becomes its message and what follows leaves the Modules as they are.
\* inserts and type_decls log what the calls of insert and of
\* TypeDecl::declare of the operation found and left, op what the operation
\* found.
Declare(m, name, program, path) ==
    LET Panic(s, message) == [s EXCEPT !.pc = message]
        Pop(s) == SubSeq(s, 1, Len(s) - 1)
        \* the rest of add_module, insert having returned r
        AddModuleInserted(s, p, id, r) ==
            IF r.ret = <<"None">>
            THEN [s EXCEPT !.counter = @ + 1, !.tree = r.tree, !.module = p,
                           !.current = Append(@, id),
                           !.definitions = Append(@, [path |-> p, decls |-> {}]),
                           !.inserts = Append(@, [path |-> p, id |-> id, before |-> s.tree,
                                                  ret |-> r.ret, after |-> r.tree])]
            ELSE Panic([s EXCEPT !.inserts = Append(@, [path |-> p, id |-> id,
                                                        before |-> s.tree, ret |-> r.ret,
                                                        after |-> r.tree])],
                       "module already exists")
        \* Modules::add_module
        AddModule(s, p) ==
            IF s.pc # "ready" THEN s
            ELSE AddModuleInserted(s, p, s.counter, Insert(s.tree, p, s.counter))
        \* the index of the Definition that Modules::current returns
        Current(s) == s.current[Len(s.current)] + 1
        \* Declare for Variant: the constructor goes to the last Definition
        RECURSIVE VariantsDeclare(_, _)
        VariantsDeclare(s, variants) ==
            IF variants = <<>> \/ s.pc # "ready" THEN s
            ELSE VariantsDeclare(
                    [s EXCEPT !.definitions[Len(s.definitions)].decls =
                                  @ \cup {<<"Constructor", Head(variants)>>}],
                    Tail(variants))
        \* the end of TypeDecl::declare: context.current.pop(); module = old_path
        TypeDeclDone(s, before) ==
            IF s.pc # "ready" THEN s
            ELSE [s EXCEPT !.current = Pop(@), !.module = before.module,
                           !.type_decls = Append(@, [before_current |-> before.current,
                                                     before_module |-> before.module,
                                                     after_current |-> Pop(s.current),
                                                     after_module |-> before.module])]
        \* Declare for TypeDecl; the unwrap of the last of an empty current panics
        TypeDeclDeclare(s, decl) ==
            IF s.pc # "ready" THEN s
            ELSE IF s.current = <<>> THEN Panic(s, "unwrap on None in current")
            ELSE TypeDeclDone(
                    VariantsDeclare(
                        AddModule([s EXCEPT !.definitions[Current(s)].decls =
                                                @ \cup {<<"Type", decl.name>>}],
                                  Append(s.module, decl.name)),
                        decl.variants),
                    s)
        \* Declare for LetDecl
        LetDeclDeclare(s, let) ==
            IF s.pc # "ready" THEN s
            ELSE IF s.current = <<>> THEN Panic(s, "unwrap on None in current")
            ELSE IF <<"Let", let>> \in s.definitions[Current(s)].decls
            THEN [s EXCEPT !.reported = @ + 1]
            ELSE [s EXCEPT !.definitions[Current(s)].decls = @ \cup {<<"Let", let>>}]
        RECURSIVE TypesDeclare(_, _)
        TypesDeclare(s, types) ==
            IF types = <<>> THEN s
            ELSE TypesDeclare(TypeDeclDeclare(s, Head(types)), Tail(types))
        RECURSIVE LetsDeclare(_, _)
        LetsDeclare(s, lets) ==
            IF lets = <<>> THEN s
            ELSE LetsDeclare(LetDeclDeclare(s, Head(lets)), Tail(lets))
        \* context.current.pop().unwrap()
        PopCurrent(s) ==
            IF s.pc # "ready" THEN s
            ELSE IF s.current = <<>> THEN Panic(s, "unwrap on None in pop")
            ELSE [s EXCEPT !.current = Pop(@)]
        entered ==
            [m EXCEPT !.calls = @ + 1, !.inserts = <<>>, !.type_decls = <<>>,
                      !.op = [name |-> name, path |-> path, current |-> m.current,
                              module |-> m.module]]
    IN PopCurrent(
          LetsDeclare(
              TypesDeclare(IF name = "declare" THEN AddModule(entered, path) ELSE entered,
                           program.types),
              program.lets))

(* ---------------------------- state machine --------------------------- *)

Idle ==
    [op |-> "none", env |-> DefaultEnv, left |-> TError, right |-> TError,
     pre |-> <<>>, err |-> Ok, reported |-> <<>>, ret |-> NoFunction, uerr |-> Ok]

\* the record of a call: its arguments, the store it started from, its
\* result, and what unify returns for the same arguments from that store
Called(op, env, left, right, pre, err, reported, ret) ==
    [op |-> op, env |-> env, left |-> left, right |-> right,
     pre |-> pre, err |-> err, reported |-> reported, ret |-> ret,
     uerr |-> IF op = "subsumes" THEN Unify(pre, env, left, right, MaxDepth).err ELSE err]

\* no hole made and no call recorded; no Parser made yet (pc "none"): its
\* fields are the tokens not yet taken (Eof follows them), the flag eaten,
\* the number of calls of bump and of diagnostics reported, the top levels
\* pushed, and the call in progress or returned: its name and result, the
\* tokens left when it was entered and when it failed, and the counts of
\* bumps and diagnostics when it was entered; the Modules of Modules::new,
\* with the log of the last operation
Init ==
    /\ holes = <<>>
    /\ last = Idle
    /\ steps = 0
    /\ parser = [tokens |-> <<>>, eaten |-> FALSE, bumps |-> 0, reported |-> 0,
                 top_levels |-> <<>>, pc |-> "none", fun |-> "none", res |-> "none",
                 before |-> <<>>, failed_at |-> <<>>, since |-> 0, noted |-> 0]
    /\ modules = [counter |-> 1, tree |-> [name |-> 0, children |-> {}],
                  definitions |-> << [path |-> <<>>, decls |-> {}] >>,
                  current |-> <<0>>, module |-> <<>>, reported |-> 0,
                  pc |-> "ready", calls |-> 0,
                  op |-> [name |-> "none", path |-> <<>>, current |-> <<>>, module |-> <<>>],
                  inserts |-> <<>>, type_decls |-> <<>>]

\* Context::hole called by the checker
CreateHole ==
    /\ steps = 0
    /\ Len(holes) < MaxCreated
    /\ \E env \in Envs, kind \in Kinds :
          holes' = NewHole(holes, env, kind).holes
    /\ UNCHANGED <<last, steps>>
    /\ UNCHANGED <<parser, modules>>

\* an Empty hole is solved by unify; the call is not recorded
Solve ==
    /\ steps = 0
    /\ Cardinality({i \in 1..Len(holes) : ~IsEmpty(holes, i)}) < MaxSolved
    /\ \E env \in Envs, i \in 1..Len(holes) :
        \E t \in Seeds(holes, env) :
          LET r == Unify(holes, env, THole(i), t, MaxDepth) IN
          /\ IsEmpty(holes, i)
          /\ WellScoped(holes, env, t)
          /\ r.err = Ok
          /\ holes' = r.holes
    /\ UNCHANGED <<last, steps>>
    /\ UNCHANGED <<parser, modules>>

\* the effect of op(env, a, b) returning r from the store holes
Returns(op, env, a, b, r) ==
    /\ holes' = r.holes
    /\ last' = Called(op, env, a, b, holes, r.err, <<>>, NoFunction)

DoUnify ==
    /\ last.err # Overflow
    /\ steps < MaxSteps
    /\ \E env \in Envs :
        \E p \in Pairs(holes, env) :
          /\ WellScoped(holes, env, p[1]) /\ WellScoped(holes, env, p[2])
          /\ Returns("unify", env, p[1], p[2], Unify(holes, env, p[1], p[2], MaxDepth))
    /\ steps' = steps + 1
    /\ UNCHANGED <<parser, modules>>

\* the same unification once more, right after it succeeded
DoUnifyAgain ==
    /\ last.op = "unify"
    /\ last.err = Ok
    /\ Returns("unify_again", last.env, last.left, last.right,
               Unify(holes, last.env, last.left, last.right, MaxDepth))
    /\ UNCHANGED steps
    /\ UNCHANGED <<parser, modules>>

\* the effect of subsumes(env, a, b) ending as r; a call that does not
\* return leaves no store to look at
SubsumesReturns(env, a, b, r) ==
    /\ Len(r.holes) <= MaxHoles \/ r.err = Overflow
    /\ holes' = IF r.err = Overflow THEN holes ELSE r.holes
    /\ last' = Called("subsumes", env, a, b, holes, r.err, r.reported, NoFunction)

DoSubsumes ==
    /\ last.err # Overflow
    /\ steps < MaxSteps
    /\ \E env \in Envs :
        \E p \in Pairs(holes, env) :
          /\ WellScoped(holes, env, p[1]) /\ WellScoped(holes, env, p[2])
          /\ SubsumesReturns(env, p[1], p[2], Subsumes(holes, env, p[1], p[2]))
    /\ steps' = steps + 1
    /\ UNCHANGED <<parser, modules>>

DoAsFunction ==
    /\ last.err # Overflow
    /\ steps < MaxSteps
    /\ \E env \in Envs :
        \E t \in Singles(holes, env) :
          LET r == AsFunction(holes, env, t, MaxDepth) IN
          /\ WellScoped(holes, env, t)
          /\ Len(r.holes) <= MaxHoles
          /\ holes' = r.holes
          /\ last' = Called("as_function", env, t, TError, holes, Ok, <<>>, r.ty)
    /\ steps' = steps + 1
    /\ UNCHANGED <<parser, modules>>

DoInstantiate ==
    /\ last.err # Overflow
    /\ steps < MaxSteps
    /\ \E env \in Envs :
        \E t \in Singles(holes, env) :
          LET r == Instantiate(holes, env, t) IN
          /\ WellScoped(holes, env, t)
          /\ Len(r.holes) <= MaxHoles
          /\ holes' = r.holes
          /\ last' = Called("instantiate", env, t, TError, holes, Ok, <<>>, r.ty)
    /\ steps' = steps + 1
    /\ UNCHANGED <<parser, modules>>

\* the types of the variables of an expression
RECURSIVE VarTypes(_)

VarTypes(expr) ==
    IF expr[1] = "Variable" THEN {expr[2]}
    ELSE VarTypes(expr[2]) \cup UNION {VarTypes(expr[3][k]) : k \in 1..Len(expr[3])}

\* the effect of infer of an expression ending as r; a call that does not return
\* leaves no store to look at
InferReturns(op, env, func, args, r) ==
    /\ Len(r.holes) <= MaxHoles \/ r.err = Overflow
    /\ holes' = IF r.err = Overflow THEN holes ELSE r.holes
    /\ last' = Called(op, env, func, args, holes, r.err, r.reported,
                      <<"Inferred", r.typ, r.elab, r.seen, r.checked>>)

\* infer of an application by the checker
DoApplication ==
    /\ last.err # Overflow
    /\ steps < MaxSteps
    /\ \E env \in Envs :
        \E func \in Funcs(holes, env), args \in Args(holes, env) :
          /\ \A t \in VarTypes(Application(func, args)) : WellScoped(holes, env, t)
          /\ InferReturns("application", env, func, <<"Args", args>>,
                          Infer(holes, env, Application(func, args)))
    /\ steps' = steps + 1
    /\ UNCHANGED <<parser, modules>>

\* the declared records: the fields of Point, all or some, with their types
Records == {[f \in D |-> TInt] : D \in SUBSET {"x", "y"}}

\* the provided fields: a name and a variable of the Env for each
Provided ==
    LET F == ({"x", "y", "z"} \X {Variable(TInt)}) \cup {<<"x", Variable(TVar("Bool"))>>} IN
    UNION {[1..n -> F] : n \in 0..MaxFields}

\* the effect of the record instance ending as r
RecordReturns(env, available, fields, r) ==
    /\ holes' = r.holes
    /\ last' = Called("record", env, <<"Record", available>>, <<"Fields", fields>>, holes,
                      r.err, r.reported, <<"Inferred", r.typ, r.elab, r.seen, r.checked>>)

\* the missing fields of f come out in the order the set of them is
\* iterated in
RecordMissing(env, available, fields, f) ==
    \E order \in Orders(Difference(DOMAIN available, f.used)) :
        RecordReturns(env, available, fields, RecordDone(f, "Point", order))

\* infer of a record instance by the checker
DoRecordInstance ==
    /\ last.err # Overflow
    /\ steps < MaxSteps
    /\ \E env \in Envs, available \in Records, fields \in Provided :
          RecordMissing(env, available, fields,
                        RecordInstance(holes, env, "Point", available, fields))
    /\ steps' = steps + 1
    /\ UNCHANGED <<parser, modules>>

\* the Real types of annotations
Annotations == {TInt, TArrow(TInt, TInt), RForall("a", TType, TArrow(TBound(0), TBound(0)))}

\* infer of an annotated variable by the checker
DoAnnotation ==
    /\ last.err # Overflow
    /\ steps < MaxSteps
    /\ \E env \in Envs :
        \E t \in Types(holes, env), typ \in Annotations :
          /\ WellScoped(holes, env, t)
          /\ InferReturns("annotation", env, Variable(t), typ,
                          Infer(holes, env, Annotation(Variable(t), typ)))
    /\ steps' = steps + 1
    /\ UNCHANGED <<parser, modules>>

\* Level::to_index called with any two levels, and from_index on its result
DoToIndex ==
    /\ last.err # Overflow
    /\ steps < MaxSteps
    /\ \E base \in 0..(MaxLevel + 1), current \in 0..(MaxLevel + 1) :
        \E out \in ToIndexOutcomes(base, current) :
          last' = Called("to_index", DefaultEnv, <<"Level", base>>, <<"Level", current>>,
                         holes, Ok, <<>>, <<"Converted", out, BackToLevel(base, out)>>)
    /\ steps' = steps + 1
    /\ UNCHANGED holes
    /\ UNCHANGED <<parser, modules>>

\* the Envs that add, add_at_end or define return when called on env
Extensions(env) ==
    {<<"add", EnvAdd(env, name, TType)>> : name \in {<<>>, <<"a">>}}
    \cup {<<"add_at_end", EnvAddAtEnd(env, name, TType)>> : name \in {<<>>, <<"a">>}}
    \cup {<<"define", EnvDefine(env, <<"a">>, typ, TType)>> : typ \in {TInt, TError}}

\* the record of an extension of env: the Env called on, and the Env returned
Extended(env, ext) ==
    Called("extend", env, TError, TError, holes, Ok, <<>>, <<"Env", ext[1], ext[2]>>)

\* the default Env extended by add, add_at_end or define
DoExtend ==
    /\ last.err # Overflow
    /\ steps < MaxSteps
    /\ \E ext \in Extensions(DefaultEnv) : last' = Extended(DefaultEnv, ext)
    /\ steps' = steps + 1
    /\ UNCHANGED holes
    /\ UNCHANGED <<parser, modules>>

\* the Env an extension returned, extended once more
DoExtendAgain ==
    /\ last.op = "extend"
    /\ last.ret[3].level < MaxBinders
    /\ \E ext \in Extensions(last.ret[3]) : last' = Extended(last.ret[3], ext)
    /\ UNCHANGED <<holes, steps>>
    /\ UNCHANGED <<parser, modules>>

DoGeneralize ==
    /\ last.err # Overflow
    /\ steps < MaxSteps
    /\ \E env \in Envs :
        \E t \in Singles(holes, env) :
          LET r == Generalize(holes, env, t) IN
          /\ WellScoped(holes, env, t)
          /\ holes' = r.holes
          /\ last' = Called("generalize", env, t, TError, holes,
                            IF r.ty = Overflow THEN Overflow ELSE Ok, <<>>, r.ty)
    /\ steps' = steps + 1
    /\ UNCHANGED <<parser, modules>>

Next ==
    \/ CreateHole
    \/ Solve
    \/ DoUnify
    \/ DoUnifyAgain
    \/ DoSubsumes
    \/ DoAsFunction
    \/ DoInstantiate
    \/ DoGeneralize
    \/ DoApplication
    \/ DoRecordInstance
    \/ DoAnnotation
    \/ DoToIndex
    \/ DoExtend
    \/ DoExtendAgain

Spec == Init /\ [][Next]_vars

\* the checker has made, and solved, the holes of a whole store at once:
\* one or two holes of kind Type or Type -> Type, Empty, or the first solved
\* with the second; or one hole of kind Type, Empty or solved with a record
\* type, its name or Int, and then a second solved with the first
SolveHoles ==
    /\ holes = <<>>
    /\ steps = 0
    /\ holes' \in
          LET Cells == {<<"Empty", k, l>> : k \in {TType, TArrow(TType, TType)},
                                            l \in 0..MaxLevel}
              One == {EnvHole(<<>>, DefaultEnv, TType)}
                     \cup {Fill(EnvHole(<<>>, DefaultEnv, TType), 1, t) :
                              t \in {TApp(TVar("Box"), TInt), TVar("Box"), TVar("Point"), TInt}}
          IN {<<c>> : c \in Cells}
             \cup {<<c, d>> : c \in Cells, d \in Cells}
             \cup {<<Fill(<<c>>, 1, THole(2))[1], d>> : c \in Cells, d \in Cells}
             \cup One
             \cup {Fill(EnvHole(h, DefaultEnv, TType), 2, THole(1)) : h \in One}
    /\ UNCHANGED <<last, steps, parser, modules>>

\* infer of a do block by the checker: blocks of up to MaxSttms statements
\* let x = n, let y = n and n over the names x, y and z, with env.vars
\* binding z to Int and x to Bool or to nothing
DoBlock ==
    /\ last.err # Overflow
    /\ steps < MaxSteps
    /\ \E env \in Envs,
          evars \in {[x |-> b, y |-> <<"Unbound">>, z |-> TInt] :
                        b \in {<<"Unbound">>, TVar("Bool")}},
          block \in LET Sttms == {<<"Let", x, <<"Name", n>> >> :
                                     x \in {"x", "y"}, n \in {"x", "y", "z"}}
                                 \cup {<<"Expr", <<"Name", n>> >> : n \in {"x", "y", "z"}}
                    IN UNION {[1..k -> Sttms] : k \in 0..MaxSttms} :
          \E r \in {InferDo(holes, env, evars, block)} :
             /\ Len(r.holes) <= MaxHoles
             /\ holes' = r.holes
             /\ last' = Called("do", env, <<"Block", block>>, <<"Vars", evars>>, holes,
                               r.err, r.reported, <<"Inferred", r.typ, r.saw>>)
    /\ steps' = steps + 1
    /\ UNCHANGED <<parser, modules>>

\* infer of a projection or of a record update by the checker: the
\* expression has a record type, Int, a hole, or a hole applied to Int
DoRecord ==
    /\ last.err # Overflow
    /\ steps < MaxSteps
    /\ \E env \in Envs,
          ty \in {TApp(TVar("Box"), TInt), TVar("Point"), TInt}
                 \cup {THole(i) : i \in 1..Len(holes)}
                 \cup {TApp(THole(i), TInt) : i \in 1..Len(holes)},
          expr \in LET F == ({"x", "y", "z"} \X {Variable(TInt)})
                            \cup {<<"x", Variable(TVar("Bool"))>>}
                   IN {<<"Projection", f>> : f \in {"x", "y", "z"}}
                      \cup {<<"RecordUpdate", fs>> :
                               fs \in UNION {[1..n -> F] : n \in 0..MaxUpdates}} :
          \E r \in {InferRecord(holes, env, ty, expr)} :
             /\ holes' = IF r.err = Overflow THEN holes ELSE r.holes
             /\ last' = Called(IF expr[1] = "Projection" THEN "projection" ELSE "update",
                               env, Variable(ty), expr, holes, r.err, r.reported,
                               <<"Spined", r.typ, r.elab, r.head, r.spine>>)
    /\ steps' = steps + 1
    /\ UNCHANGED <<parser, modules>>

\* one call of as_function or of infer of a do block, a projection or a
\* record update on a store of holes of either kind, Empty and solved
StoreSpec == Init /\ [][SolveHoles \/ DoAsFunction \/ DoBlock \/ DoRecord]_vars
(* ------------------------------- parser ------------------------------- *)

\* A parsing function is a term: <<"Expect", token>>, <<"Bump">>,
\* <<"Unexpected">> (an Err without a bump), <<"Calls", <<f1, ..., fn>> >>
\* for f1?; ...; fn?, <<"IfAt", tokens, f, g>> for if self.at(token), for
\* one of the tokens, { f } else { g }, <<"Test", f>>, <<"Many", f>>,
\* <<"SepBy", sep, f, values>>, values the number of values pushed so far,
\* and <<"Call", name>> for a call of the function of that name.

\* the functions of the modules identifier, literal, type and expr, by
\* the token each starts with; block(f) is Begin, the items f separated by
\* Sep, End
Leaf(name, f) ==
    LET Expect(token) == <<"Expect", token>>
        IfAt(tokens, g, h) == <<"IfAt", tokens, g, h>>
    IN CASE name = "lower" -> Expect("LowerIdent")
         [] name \in {"upper", "path_upper", "path_ident"} -> Expect("UpperIdent")
         [] name = "literal" -> Expect("Integer")
         [] name \in {"type_atom", "typ"} ->
               IfAt({"UpperIdent"}, Expect("UpperIdent"), Expect("LowerIdent"))
         [] name = "kind" -> Expect("Star")
         [] name = "expr" -> IfAt({"LowerIdent"}, Expect("LowerIdent"), Expect("Integer"))
         [] name = "pattern_arm" ->
               <<"Calls", << <<"Call", "pattern">>, Expect("FatArrow"),
                             IfAt({"LowerIdent"}, Expect("LowerIdent"), Expect("Integer")) >> >>
         [] name = "block" ->
               <<"Calls", <<Expect("Begin"), <<"SepBy", "Sep", f, 0>>, Expect("End")>> >>

\* the parsing functions of top_level.rs and pattern.rs, and
\* Parser::parenthesis; the functions called by name are the fields
Rule ==
    LET Expect(token) == <<"Expect", token>>
        BumpToken == <<"Bump">>
        Unexpected == <<"Unexpected">>
        Calls(funs) == <<"Calls", funs>>
        IfAt(tokens, f, g) == <<"IfAt", tokens, f, g>>
        Many(f) == <<"Many", f>>
        SepBy(sep, f) == <<"SepBy", sep, f, 0>>
        Call(fun) == <<"Call", fun>>
        Nothing == Calls(<<>>)
        Parenthesis(f) == Calls(<<Expect("LPar"), f, Expect("RPar")>>)
        lower == Leaf("lower", <<>>)
        upper == Leaf("upper", <<>>)
        path_upper == Leaf("path_upper", <<>>)
        path_ident == Leaf("path_ident", <<>>)
        literal == Leaf("literal", <<>>)
        type_atom == Leaf("type_atom", <<>>)
        typ == Leaf("typ", <<>>)
        kind == Leaf("kind", <<>>)
        expr == Leaf("expr", <<>>)
        pattern_arm == Leaf("pattern_arm", <<>>)
        block(f) == Leaf("block", f)
        pattern_atom ==
            IfAt({"Wildcard"}, BumpToken,
            IfAt({"LowerIdent"}, lower,
            IfAt({"UpperIdent"}, path_ident,
            IfAt({"LPar"}, Parenthesis(Call("pattern")), literal))))
        pattern_application ==
            IfAt({"UpperIdent"}, Calls(<<path_upper, Many(pattern_atom)>>), pattern_atom)
        pattern == pattern_application
        binder ==
            Calls(<<Expect("LPar"), pattern, Expect("Colon"), typ, Expect("RPar")>>)
        trait_binder == Calls(<<Expect("LBracket"), typ, Expect("RBracket")>>)
        explicit_type_binder == Calls(<<lower, Expect("Colon"), kind>>)
        type_binder == IfAt({"LowerIdent"}, lower, Parenthesis(explicit_type_binder))
        let_binder == IfAt({"LBracket"}, trait_binder, binder)
        let_case == Calls(<<Expect("Bar"), pattern_arm>>)
        let_signature ==
            Calls(<<Expect("Let"), lower, Many(let_binder),
                  IfAt({"Colon"}, Calls(<<BumpToken, typ>>), Nothing)>>)
        let_decl ==
            Calls(<<let_signature,
                  IfAt({"Equal"}, Calls(<<Expect("Equal"), expr>>),
                  IfAt({"Bar"}, Many(let_case), Unexpected))>>)
        trait_decl ==
            Calls(<<Expect("Trait"), Many(trait_binder), upper, Many(type_binder),
                  Expect("Where"), block(let_signature)>>)
        trait_impl ==
            Calls(<<Expect("Impl"), Many(trait_binder), path_upper, Many(type_atom),
                  Expect("Where"), block(let_decl)>>)
        constructor_decl ==
            Calls(<<Expect("Bar"), upper, Many(type_atom),
                  IfAt({"Colon"}, Calls(<<BumpToken, typ>>), Nothing)>>)
        sum_decl == Many(constructor_decl)
        visibility == IfAt({"Pub"}, BumpToken, Nothing)
        field == Calls(<<visibility, lower, Expect("Colon"), typ>>)
        command_decl == Calls(<<Expect("Command"), Expect("String")>>)
        record_decl == Calls(<<Expect("LBrace"), SepBy("Comma", field), Expect("RBrace")>>)
        type_def == IfAt({"Bar"}, sum_decl, IfAt({"LBrace"}, record_decl, type_atom))
        type_decl ==
            Calls(<<Expect("Type"), upper, Many(type_binder),
                  IfAt({"Equal"}, Calls(<<Expect("Equal"), type_def>>), Nothing)>>)
        use_alias == Calls(<<Expect("As"), upper>>)
        use_decl == Calls(<<Expect("Use"), path_upper, IfAt({"As"}, use_alias, Nothing)>>)
        mod_decl ==
            Calls(<<Expect("Mod"), upper,
                  IfAt({"Where"}, Calls(<<Expect("Where"), block(Call("top_level"))>>),
                       Nothing)>>)
        external_decl ==
            Calls(<<Expect("External"), lower, Expect("Colon"), typ, Expect("Equal"),
                  Expect("String")>>)
        top_level ==
            Calls(<<visibility,
                  IfAt({"Let"}, let_decl,
                  IfAt({"Type"}, type_decl,
                  IfAt({"Use"}, use_decl,
                  IfAt({"Impl"}, trait_impl,
                  IfAt({"Trait"}, trait_decl,
                  IfAt({"Mod"}, mod_decl,
                  IfAt({"Command"}, command_decl,
                  IfAt({"External"}, external_decl, Unexpected))))))))>>)
    IN [pattern |-> pattern, binder |-> binder, let_signature |-> let_signature,
        type_decl |-> type_decl, top_level |-> top_level]

RECURSIVE Run(_, _, _)

\* a parsing function called on the parser p: the parser it leaves and Ok
\* or Err or, for test, Some, None or Err.  Parser::peek, at, bump, expect,
\* test, many and sep_by: bump sets eaten, test clears it on entry and
\* turns an Err into None when it finds it clear, many goes on while test
\* returns Some, and sep_by takes a separator left after the values
Run(p, fun, fuel) ==
    LET Parsed(q, res) == [p |-> q, res |-> res]
        Peek(q) == IF q.tokens = <<>> THEN "Eof" ELSE Head(q.tokens)
        Bump(q) ==
            [q EXCEPT !.eaten = TRUE, !.bumps = @ + 1,
                      !.tokens = IF q.tokens = <<>> THEN <<>> ELSE Tail(q.tokens)]
        SepByEnd(q, values) ==
            IF Peek(q) = fun[2] /\ values > 0 THEN Parsed(Bump(q), "Ok") ELSE Parsed(q, "Ok")
    IN
    IF fuel = 0 THEN Parsed(p, "Overflow")
    ELSE IF fun[1] = "Expect"
    THEN IF Peek(p) = fun[2] THEN Parsed(Bump(p), "Ok") ELSE Parsed(p, "Err")
    ELSE IF fun[1] = "Bump" THEN Parsed(Bump(p), "Ok")
    ELSE IF fun[1] = "Unexpected" THEN Parsed(p, "Err")
    ELSE IF fun[1] = "Calls"
    THEN IF fun[2] = <<>> THEN Parsed(p, "Ok")
         ELSE CHOOSE out \in
            {IF r.res # "Ok" THEN r ELSE Run(r.p, <<"Calls", Tail(fun[2])>>, fuel)
             : r \in {Run(p, Head(fun[2]), fuel)}} : TRUE
    ELSE IF fun[1] = "IfAt"
    THEN IF Peek(p) \in fun[2] THEN Run(p, fun[3], fuel) ELSE Run(p, fun[4], fuel)
    ELSE IF fun[1] = "Test"
    THEN CHOOSE out \in
            {IF r.res \in {"Ok", "Overflow"}
             THEN Parsed(r.p, IF r.res = "Ok" THEN "Some" ELSE "Overflow")
             ELSE IF r.p.eaten THEN Parsed(r.p, "Err")
             ELSE Parsed(r.p, "None")
             : r \in {Run([p EXCEPT !.eaten = FALSE], fun[2], fuel)}} : TRUE
    ELSE IF fun[1] = "Many"
    THEN CHOOSE out \in
            {IF t.res = "Some" THEN Run(t.p, fun, fuel - 1)
             ELSE IF t.res = "None" THEN Parsed(t.p, "Ok")
             ELSE t
             : t \in {Run(p, <<"Test", fun[2]>>, fuel)}} : TRUE
    ELSE IF fun[1] = "SepBy"
    THEN CHOOSE out \in
            {IF t.res = "Some"
             THEN IF Peek(t.p) = fun[2]
                  THEN Run(Bump(t.p), <<"SepBy", fun[2], fun[3], fun[4] + 1>>, fuel - 1)
                  ELSE SepByEnd(t.p, fun[4] + 1)
             ELSE IF t.res = "None" THEN SepByEnd(t.p, fun[4])
             ELSE t
             : t \in {Run(p, <<"Test", fun[3]>>, fuel)}} : TRUE
    ELSE Run(p, Rule[fun[2]], fuel - 1)

\* report without its bump: the diagnostic only
ReportKeepsToken(p) ==
    [p EXCEPT !.reported = @ + 1]

\* Parser::report: the diagnostic, then self.bump()
Report(p) ==
    [p EXCEPT !.reported = @ + 1, !.eaten = TRUE, !.bumps = @ + 1,
              !.tokens = IF p.tokens = <<>> THEN <<>> ELSE Tail(p.tokens)]

\* Parser::new on the lexer of any stream of up to MaxTokens tokens
NewParser ==
    /\ parser.pc = "none"
    /\ \E tokens \in UNION {[1..n ->
                               {"Let", "Type", "Pub", "LowerIdent", "UpperIdent",
                                "Equal", "Colon", "LPar", "RPar"}] : n \in 0..MaxTokens} :
          parser' = [parser EXCEPT !.tokens = tokens, !.pc = "new"]
    /\ UNCHANGED <<holes, last, steps, modules>>

\* Parser::test called on a new parser
DoTest ==
    /\ parser.pc = "new"
    /\ \E name \in {"binder", "pattern", "let_signature", "type_decl"} :
          \E t \in {Run(parser, <<"Test", Rule[name]>>, MaxDepth)} :
             parser' = [t.p EXCEPT !.pc = "tested", !.fun = name, !.res = t.res,
                                   !.before = parser.tokens, !.since = parser.bumps]
    /\ UNCHANGED <<holes, last, steps, modules>>

\* one turn of the loop of Parser::program, the first on a new parser: the
\* two arms of the match on the result of top_level, the second with
\* Parser::report and Parser::recover, which bumps up to Let, Type, Use or Eof
ProgramStep ==
    /\ parser.pc \in {"new", "program"}
    /\ parser.tokens # <<>>
    /\ parser.res # "Overflow"
    /\ \E r \in {Run(parser, Rule.top_level, MaxDepth)} :
          LET RECURSIVE Recover(_)
              Recover(q) ==
                  IF q.tokens = <<>> \/ Head(q.tokens) \in {"Let", "Type", "Use"} THEN q
                  ELSE Recover([q EXCEPT !.eaten = TRUE, !.bumps = @ + 1,
                                         !.tokens = Tail(q.tokens)])
          IN parser' =
                [(IF r.res = "Ok" THEN [r.p EXCEPT !.top_levels = Append(@, "TopLevel")]
                  ELSE [Recover(Report(r.p)) EXCEPT !.top_levels = Append(@, "Error"),
                                                    !.failed_at = r.p.tokens])
                 EXCEPT !.pc = "program", !.fun = "program", !.res = r.res,
                        !.before = parser.tokens, !.since = parser.bumps,
                        !.noted = parser.reported]
    /\ UNCHANGED <<holes, last, steps, modules>>

\* the loop of Parser::program left at Eof: let eof = self.eat(Eof), which
\* bumps
ProgramEnd ==
    /\ parser.pc \in {"new", "program"}
    /\ parser.tokens = <<>>
    /\ parser' = [parser EXCEPT !.pc = "done", !.fun = "program", !.eaten = TRUE,
                                !.bumps = @ + 1, !.before = parser.tokens]
    /\ UNCHANGED <<holes, last, steps, modules>>

\* the parser given any stream of tokens; the loop of program goes on while
\* it can
ParserSpec ==
    /\ Init
    /\ [][NewParser \/ DoTest \/ ProgramStep \/ ProgramEnd]_vars
    /\ WF_vars(ProgramStep) /\ WF_vars(ProgramEnd)

(* --------------------------- resolver: calls -------------------------- *)

\* declare called by the driver for the module at path: programs of up to
\* MaxTypes types, each an Enum of one variant or a Record, and a let or none
DoDeclare ==
    /\ modules.pc = "ready"
    /\ modules.calls < MaxCalls
    /\ \E program \in
            {[types |-> t, lets |-> l] :
                t \in UNION {[1..n -> {[name |-> d, variants |-> v] :
                                          d \in {"T", "U"}, v \in {<<>>, <<"K">>}}] :
                                n \in 0..MaxTypes},
                l \in {<<>>, <<"f">>}},
          path \in UNION {[1..n -> {"A", "B"}] : n \in 0..MaxPath} :
          modules' = Declare(modules, "declare", program, path)
    /\ UNCHANGED <<holes, last, steps, parser>>

\* declare_main called by the driver
DoDeclareMain ==
    /\ modules.pc = "ready"
    /\ modules.calls < MaxCalls
    /\ \E program \in
            {[types |-> t, lets |-> l] :
                t \in UNION {[1..n -> {[name |-> d, variants |-> v] :
                                          d \in {"T", "U"}, v \in {<<>>, <<"K">>}}] :
                                n \in 0..MaxTypes},
                l \in {<<>>, <<"f">>}} :
          modules' = Declare(modules, "declare_main", program, <<>>)
    /\ UNCHANGED <<holes, last, steps, parser>>

\* the declarations of up to MaxCalls modules
ResolverSpec == Init /\ [][DoDeclare \/ DoDeclareMain]_vars
(* ------------------------------- claims ------------------------------- *)

\* C1: no escape. After unify, subsumes and as_function calls, the payload
\* of every Filled hole created at level L, followed through Filled holes,
\* contains no Bound(l) with l >= L.
C1_NoEscape ==
    last.op \in {"none", "unify", "unify_again", "subsumes", "as_function"} =>
        \A i \in 1..Len(holes) :
            holes[i][1] = "Filled" => ~Mentions(holes, holes[i][2], holes[i][4], {i})

\* C2: a unify that returned Ok, called again at once with the same
\* arguments, returns Ok and changes no hole cell.
C2_UnifyIdempotent ==
    last.op = "unify_again" => last.err = Ok /\ holes = last.pre

\* C3: whenever unify(env, a, b) returns Ok from a store, subsumes(env, a, b)
\* from the same store reports no diagnostic.
C3_SubsumesAtLeastUnify ==
    (last.op = "subsumes" /\ last.uerr = Ok) => last.reported = <<>>

\* forall a. a -> a, whatever Env its closure captured
IsId(t) == Tag(t) = "Forall" /\ t[5] = TArrow(TBound(0), TBound(0))

IntToInt == TArrow(TInt, TInt)

\* C4: direction of polymorphic subsumption. subsumes(forall a. a -> a,
\* forall b. b -> b) and subsumes(forall a. a -> a, Int -> Int) report
\* nothing (the right Forall is skolemized before the left one is
\* instantiated); subsumes(Int -> Int, forall a. a -> a) reports one
\* TypeMismatch.
C4_Direction ==
    last.op = "subsumes" =>
        /\ (IsId(last.left) /\ IsId(last.right)) => last.reported = <<>>
        /\ (IsId(last.left) /\ last.right = IntToInt) => last.reported = <<>>
        /\ (last.left = IntToInt /\ IsId(last.right)) =>
              (Len(last.reported) = 1 /\ last.reported[1][1] = "TypeMismatch")

\* C4 witness: both sides polymorphic, closures captured at the level of
\* the call, nothing reported
C4_Witness ==
    /\ last.op = "subsumes"
    /\ IsId(last.left) /\ IsId(last.right)
    /\ last.left[4].level = last.env.level /\ last.right[4].level = last.env.level
    /\ last.env.level = 1
    /\ last.reported = <<>>

\* t is the Forall type poly instantiated at a type that is a Variable, a
\* Bound in scope, a hole or Error
InstanceOf(h, env, t, poly) ==
    /\ Tag(poly) = "Forall"
    /\ \E x \in Atoms(h, env) \cup {TError} :
          t = Apply(poly[4], poly[5], <<poly[2]>>, x, poly[3])

\* t is the Forall type poly instantiated at a type that dereferences to a
\* Variable, a Bound in scope, an Empty hole or Error
SimpleInstanceOf(h, env, t, poly) ==
    /\ Tag(poly) = "Forall"
    /\ \E x \in Atoms(h, env) \cup {TError} :
          /\ Tag(Deref(h, x)) \in {"Variable", "Bound", "Hole", "Error"}
          /\ t = Apply(poly[4], poly[5], <<poly[2]>>, x, poly[3])

\* C5 as stated: subsumes(a, b) reports no diagnostic whenever b is a Forall
\* type of which a is an instance.
C5_RightMorePolymorphic ==
    (last.op = "subsumes" /\ InstanceOf(last.pre, last.env, last.left, last.right))
        => last.reported = <<>>

\* C5 amended: subsumes(a, b) reports no diagnostic whenever a is forall x. x
\* or forall x. x -> x and b is its instance at a type that dereferences to
\* a Variable, a Bound in scope, an Empty hole or Error; subsumes(Int -> Int, forall x. x -> x) reports a
\* TypeMismatch.
C5_LeftMorePolymorphic ==
    last.op = "subsumes" =>
        /\ SimpleInstanceOf(last.pre, last.env, last.right, last.left) =>
              last.reported = <<>>
        /\ (last.left = IntToInt /\ IsId(last.right)) =>
              (Len(last.reported) = 1 /\ last.reported[1][1] = "TypeMismatch")

\* C5 witness: forall x. x -> x against its instance at a hole, solved by
\* the call
C5_Witness ==
    /\ last.op = "subsumes"
    /\ IsId(last.left)
    /\ Tag(last.right) = "Arrow" /\ Tag(last.right[2]) = "Hole"
    /\ SimpleInstanceOf(last.pre, last.env, last.right, last.left)
    /\ holes # last.pre
    /\ last.reported = <<>>

\* both sides of the recorded call are arrows once dereferenced
ArrowArrow ==
    /\ Tag(Deref(last.pre, last.left)) = "Arrow"
    /\ Tag(Deref(last.pre, last.right)) = "Arrow"

\* the domain check of the recorded call: go(A2, A1) from the store before
DomCheck ==
    Go(last.pre, last.env, Deref(last.pre, last.right)[2],
       Deref(last.pre, last.left)[2], MaxDepth - 1)

\* the codomain check go(B1, B2) run from store h
CodCheck(h) ==
    Go(h, last.env, Deref(last.pre, last.left)[3],
       Deref(last.pre, last.right)[3], MaxDepth - 1)

\* C6: arrow variance and order. For Arrow vs Arrow subsumes first checks
\* the domains with the sides swapped and then the codomains in order; it
\* succeeds exactly when both do, and after a failed domain check the store
\* is the one the domain check left: the codomain check filled nothing.
\* (Calls that return; a call that does not return has no result.)
C6_ArrowVariance ==
    (last.op = "subsumes" /\ ArrowArrow /\ last.err # Overflow) =>
        /\ DomCheck.err # Ok => (last.err = DomCheck.err /\ holes = DomCheck.holes)
        /\ DomCheck.err = Ok =>
              (last.err = CodCheck(DomCheck.holes).err
               /\ holes = CodCheck(DomCheck.holes).holes)
        /\ last.err = Ok <=> (DomCheck.err = Ok /\ CodCheck(DomCheck.holes).err = Ok)

\* C6 witness: the domains do not match and the codomain check alone would
\* have solved a hole, which is still Empty
C6_Witness ==
    /\ last.op = "subsumes" /\ ArrowArrow
    /\ DomCheck.err # Ok
    /\ CodCheck(last.pre).err = Ok
    /\ CodCheck(last.pre).holes # last.pre
    /\ holes = last.pre

\* C7: Error never cascades. When either side dereferences to Error, unify
\* returns Ok and subsumes reports nothing.
C7_ErrorNeverCascades ==
    (/\ last.op \in {"unify", "subsumes"}
     /\ (Deref(last.pre, last.left) = TError \/ Deref(last.pre, last.right) = TError))
        => (last.err = Ok /\ last.reported = <<>>)

\* C7 witness: a hole solved with Error met by a Forall in subsumes
C7_Witness ==
    /\ last.op = "subsumes"
    /\ Tag(last.left) = "Hole" /\ Deref(last.pre, last.left) = TError
    /\ Tag(last.right) = "Forall"
    /\ last.err = Ok

\* C8: one diagnostic per subsumption. A call of subsumes that returns
\* reports nothing when its derivation succeeds and exactly one diagnostic
\* when it fails: a TypeMismatch is the one built from the env and the
\* arguments of the call, InfiniteType and EscapingScope are passed on.
C8_OneDiagnostic ==
    (last.op = "subsumes" /\ last.err # Overflow) =>
        /\ last.err = Ok => last.reported = <<>>
        /\ last.err # Ok => Len(last.reported) = 1
        /\ (last.err # Ok /\ last.err[1] = "TypeMismatch") =>
              last.reported[1] = Mismatch(holes, last.env, last.left, last.right)
        /\ last.err \in {InfiniteType, EscapingScope} => last.reported[1] = last.err

\* C8 witness: the mismatch was raised below the top with other types
C8_Witness ==
    /\ last.op = "subsumes"
    /\ last.err[1] = "TypeMismatch"
    /\ last.reported # <<last.err>>
    /\ Len(last.reported) = 1

RECURSIVE OccursIn(_, _, _, _)
RECURSIVE OccursInReal(_, _, _, _, _, _)

\* the cell hole occurs in t, followed through Filled holes
OccursIn(h, hole, t, seen) ==
    IF Tag(t) = "Hole" THEN
        \/ t[2] = hole
        \/ /\ h[t[2]][1] = "Filled"
           /\ t[2] \notin seen
           /\ OccursIn(h, hole, h[t[2]][2], seen \cup {t[2]})
    ELSE IF Tag(t) \in {"Arrow", "Application", "Qualified"} THEN
        OccursIn(h, hole, t[2], seen) \/ OccursIn(h, hole, t[3], seen)
    ELSE IF Tag(t) = "Tuple" THEN \E i \in 1..Len(t[2]) : OccursIn(h, hole, t[2][i], seen)
    ELSE IF Tag(t) = "Forall" THEN OccursInReal(h, hole, t[4], t[5], 1, seen)
    ELSE FALSE

OccursInReal(h, hole, cenv, body, depth, seen) ==
    IF Tag(body) = "Bound" THEN
        /\ body[2] >= depth
        /\ body[2] - depth < Len(cenv.types)
        /\ OccursIn(h, hole, cenv.types[body[2] - depth + 1], seen)
    ELSE IF Tag(body) = "Hole" THEN OccursIn(h, hole, body, seen)
    ELSE IF Tag(body) \in {"Arrow", "Application", "Qualified"} THEN
        \/ OccursInReal(h, hole, cenv, body[2], depth, seen)
        \/ OccursInReal(h, hole, cenv, body[3], depth, seen)
    ELSE IF Tag(body) = "Tuple" THEN
        \E i \in 1..Len(body[2]) : OccursInReal(h, hole, cenv, body[2][i], depth, seen)
    ELSE IF Tag(body) = "Forall" THEN OccursInReal(h, hole, cenv, body[4], depth + 1, seen)
    ELSE FALSE

\* the recorded call is unify(env, Hole h, t) with h Empty and t not h
HoleAgainstType ==
    /\ last.op = "unify"
    /\ Tag(last.left) = "Hole"
    /\ IsEmpty(last.pre, last.left[2])
    /\ Deref(last.pre, last.right) # last.left

\* C9: the occurs check is complete. unify(env, Hole h, t) with h Empty and
\* t not h returns InfiniteType when h occurs inside t and EscapingScope
\* when t mentions a Bound at or above the level of h (either of the two
\* when both hold), and leaves h Empty.
C9_OccursComplete ==
    HoleAgainstType =>
        LET occ == OccursIn(last.pre, last.left[2], last.right, {})
            esc == Mentions(last.pre, last.right, last.pre[last.left[2]][3], {})
        IN (occ \/ esc) =>
              /\ last.err \in {InfiniteType, EscapingScope}
              /\ ~esc => last.err = InfiniteType
              /\ ~occ => last.err = EscapingScope
              /\ IsEmpty(holes, last.left[2])

\* C10: hole cells are write-once. Every step leaves a Filled cell as it
\* is, never removes a cell, and a cell that is Filled has been written
\* exactly once.
C10_WriteOnce ==
    [][/\ Len(holes') >= Len(holes)
       /\ \A i \in 1..Len(holes) : holes[i][1] = "Filled" => holes'[i] = holes[i]
       /\ \A i \in 1..Len(holes') : holes'[i][1] = "Filled" => holes'[i][3] = 1]_vars

\* C10 witness: generalize wrote the one hole that both sides of an arrow
\* share, next to a cell that was Filled before
C10_Witness ==
    /\ last.op = "generalize"
    /\ Tag(last.left) = "Arrow"
    /\ Tag(last.left[2]) = "Hole" /\ last.left[3] = last.left[2]
    /\ IsEmpty(last.pre, last.left[2][2])
    /\ ~IsEmpty(holes, last.left[2][2])
    /\ \E j \in 1..Len(last.pre) : ~IsEmpty(last.pre, j)

\* C11: every Empty hole has a strictly positive scope level, whichever
\* operation created it and in whichever Env reachable from the default Env.
C11_PositiveLevel ==
    \A i \in 1..Len(holes) : IsEmpty(holes, i) => holes[i][3] > 0

\* C12: generalization respects levels. generalize(env, ty) replaces by a
\* bound variable exactly the Empty holes of ty whose level exceeds
\* env.level; an Empty hole whose level is <= env.level is left Empty.
C12_GeneralizeRespectsLevels ==
    (last.op = "generalize" /\ last.err = Ok) =>
        \A i \in 1..Len(last.pre) :
            IsEmpty(last.pre, i) =>
                (~IsEmpty(holes, i) <=>
                    (OccursIn(last.pre, i, last.left, {}) /\ last.pre[i][3] > last.env.level))

\* the cell i was Empty before the recorded call and is Filled after it
Collected(i) == i <= Len(last.pre) /\ IsEmpty(last.pre, i) /\ ~IsEmpty(holes, i)

RECURSIVE Binds(_, _)
RECURSIVE BindsAll(_, _)

\* in the real type t under the binders bs (innermost first), every
\* occurrence of a collected hole holds the index of the binder named after it
Binds(t, bs) ==
    IF Tag(t) = "Hole" THEN
        Collected(t[2]) =>
            LET b == holes[t[2]][2] IN
            /\ Tag(b) = "Bound"
            /\ b[2] < Len(bs)
            /\ bs[b[2] + 1] = ToString(t[2])
    ELSE IF Tag(t) = "Forall" THEN Binds(t[3], bs) /\ Binds(t[4], <<t[2]>> \o bs)
    ELSE IF Tag(t) \in {"Arrow", "Application", "Qualified"} THEN Binds(t[2], bs) /\ Binds(t[3], bs)
    ELSE IF Tag(t) = "Tuple" THEN BindsAll(t[2], bs)
    ELSE TRUE

BindsAll(ts, bs) == \A i \in 1..Len(ts) : Binds(ts[i], bs)

RECURSIVE Leading(_)

\* the names of the leading Foralls of a real type, outermost first
Leading(t) == IF Tag(t) = "Forall" THEN <<t[2]>> \o Leading(t[4]) ELSE <<>>

\* the names of the leading Foralls of the virtual type t
LeadingNames(t) == IF Tag(t) = "Forall" THEN <<t[2]>> \o Leading(t[5]) ELSE <<>>

\* C13: generalization binds correctly. The result of generalize(env, ty)
\* has exactly one leading Forall per collected hole, and every occurrence of
\* a collected hole holds the index of the Forall introduced for that hole.
C13_GeneralizeBinds ==
    (last.op = "generalize" /\ last.err = Ok) =>
        /\ \A i \in 1..Len(last.pre) :
              Collected(i) =>
                Cardinality({j \in 1..Len(LeadingNames(last.ret)) :
                                LeadingNames(last.ret)[j] = ToString(i)}) = 1
        /\ Tag(last.ret) = "Forall" => Binds(last.ret[5], <<last.ret[2]>>)

\* C14: instantiate peels all leading Foralls. For a type that dereferences
\* to forall a1 ... an. T it creates one hole per binder, Empty, at env.level
\* and of the binder's kind, and returns a type whose head after deref is
\* not a Forall; for any other type it returns the type and creates no hole.
C14_InstantiatePeelsAll ==
    last.op = "instantiate" =>
        LET t == Deref(last.pre, last.left)
            n == Len(LeadingNames(t))
        IN
        /\ Tag(t) = "Forall" =>
              /\ Tag(Deref(holes, last.ret)) # "Forall"
              /\ Len(holes) = Len(last.pre) + n
              /\ \A i \in (Len(last.pre) + 1)..Len(holes) :
                    holes[i] = <<"Empty", TType, last.env.level>>
        /\ Tag(t) # "Forall" => (last.ret = last.left /\ holes = last.pre)

NonFunction(t) == Tag(t) \notin {"Arrow", "Forall", "Hole", "Error"}

NotAFunctionCount(rep) ==
    Cardinality({k \in 1..Len(rep) : rep[k][1] = "NotAFunction"})

\* C15: when, after k < n arguments of app(f, a1..an), the type of the
\* function is (after deref) neither an Arrow, a Forall, an Empty hole nor
\* Error, the application reports exactly one NotAFunction, has checked k
\* arguments and no more, and has type Error with an Error node (of the
\* calls that return)
C15_NotAFunction ==
    (last.op = "application" /\ last.err # Overflow) =>
        \A k \in 0..(Len(last.right[2]) - 1) :
            (k < Len(last.ret[4]) /\ NonFunction(last.ret[4][k + 1])) =>
                /\ NotAFunctionCount(last.reported) = 1
                /\ last.ret[5] = k
                /\ last.ret[2] = TError
                /\ last.ret[3] = ErrorNode

\* an application of Int -> Int to two arguments was inferred: the second
\* argument met Int where a function was needed
C15_Witness ==
    /\ last.op = "application" /\ last.err = Ok
    /\ last.left = Variable(TArrow(TInt, TInt))
    /\ Len(last.right[2]) = 2
    /\ last.ret[5] = 1
    /\ NotAFunctionCount(last.reported) = 1

\* the number of diagnostics d among those reported by the last call
Count(d) == Cardinality({k \in 1..Len(last.reported) : last.reported[k] = d})

\* the occurrences of P accepted: declared, and not provided before
Accepted(D, P) ==
    {k \in 1..Len(P) : P[k][1] \in D /\ \A j \in 1..(k - 1) : P[j][1] # P[k][1]}

\* C16: a record instance reports one NotFoundField for each provided
\* occurrence of an undeclared name, one DuplicatedField for each occurrence
\* of a name accepted earlier, and one MissingField(f) for exactly the
\* declared f never accepted; none of the three when every declared field
\* is provided exactly once
C16_RecordDiagnostics ==
    (last.op = "record" /\ last.err # Overflow) =>
        LET D == DOMAIN last.left[2]
            P == last.right[2]
        IN
        /\ Count(NotFoundField) = Cardinality({k \in 1..Len(P) : P[k][1] \notin D})
        /\ Count(DuplicatedField) =
              Cardinality({k \in 1..Len(P) : P[k][1] \in D /\ k \notin Accepted(D, P)})
        /\ \A f \in {"x", "y", "z"} :
              Count(MissingField(f)) =
                IF f \in D /\ \A k \in Accepted(D, P) : P[k][1] # f THEN 1 ELSE 0
        /\ (Len(P) = Cardinality(D) /\ \A f \in D : \E k \in 1..Len(P) : P[k][1] = f) =>
              \A k \in 1..Len(last.reported) :
                last.reported[k][1] \notin {"NotFoundField", "DuplicatedField", "MissingField"}

\* a record instance that provides x twice and z, and leaves y out
C16_Witness ==
    /\ last.op = "record" /\ last.err = Ok
    /\ DOMAIN last.left[2] = {"x", "y"}
    /\ Count(NotFoundField) = 1
    /\ Count(DuplicatedField) = 1
    /\ Count(MissingField("y")) = 1

\* the subsumption of the last annotation failed
AnnotationFails ==
    /\ last.op = "annotation"
    /\ last.err # Overflow
    /\ Go(last.pre, last.env, last.left[2], Eval(last.env, last.right), MaxDepth).err
          \notin {Ok, Overflow}

\* C17: when the subsumption of annot(e, T) fails, the annotation reports
\* a single diagnostic and its elaborated form is an Error node with type
\* Error
C17_ErrorReplacement ==
    AnnotationFails =>
        /\ Len(last.reported) = 1
        /\ last.ret[2] = TError
        /\ last.ret[3] = ErrorNode

\* the type the binder of the Forall on the right stands for in its body
\* when subsumes, called in env, goes under it
Skolem(env, forall) == ApplyLocal(forall[4], TBound(0), <<>>, TBound(env.level))

\* C18: when subsumes meets a Forall on the right (the `_ vs Forall` step,
\* or the Forall step of sub_hole_type when the left is an Empty hole), the
\* variable its binder is replaced with is Bound(env.level) of the Env of
\* the call, which no variable in scope in that Env is, whatever the level
\* of the Env the Forall was closed in
C18_SkolemFresh ==
    (last.op = "subsumes" /\ Tag(Deref(last.pre, last.right)) = "Forall") =>
        /\ Skolem(last.env, Deref(last.pre, last.right)) = TBound(last.env.level)
        /\ Skolem(last.env, Deref(last.pre, last.right))
              \notin {TBound(l) : l \in 0..(last.env.level - 1)}

\* C19: for current < base, to_index(base, current) is Index(base -
\* current - 1), below base, and from_index takes it back to current; for
\* current >= base, current = base included, to_index ends in its explicit
\* panic
C19_ToIndex ==
    last.op = "to_index" =>
        LET base == last.left[2]
            current == last.right[2]
        IN
        /\ current < base =>
              /\ last.ret[2] = <<"Index", base - current - 1>>
              /\ base - current - 1 < base
              /\ last.ret[3] = <<"Level", current>>
        /\ current >= base => last.ret[2] = ExplicitPanic

\* the three stacks of env hold one entry for each of its level binders
Stacked(env) ==
    /\ Len(env.names) = env.level
    /\ Len(env.types) = env.level
    /\ Len(env.kinds) = env.level

\* C20: add, add_at_end and define return an Env of the level of the Env
\* they are called on plus one, with one more entry in each of names, types
\* and kinds; so in every Env built from the default Env the three stacks
\* are as long as the level
C20_EnvExtension ==
    last.op = "extend" =>
        /\ last.ret[3].level = last.env.level + 1
        /\ Len(last.ret[3].names) = Len(last.env.names) + 1
        /\ Len(last.ret[3].types) = Len(last.env.types) + 1
        /\ Len(last.ret[3].kinds) = Len(last.env.kinds) + 1
        /\ Stacked(last.env)
        /\ Stacked(last.ret[3])

\* an Env of three binders, the last of them added at the end
C20_Witness ==
    /\ last.op = "extend"
    /\ last.ret[2] = "add_at_end"
    /\ last.ret[3].level = MaxBinders

\* C23: subsumes returns to its caller, for every pair of types and every
\* store of holes it is called with
C23_SubsumesTerminates == last.op = "subsumes" => last.err # Overflow

\* C27: unify of a type with itself returns Ok and fills no hole
C27_UnifyReflexive ==
    (last.op = "unify" /\ last.left = last.right /\ last.err # Overflow) =>
        (last.err = Ok /\ holes = last.pre)

\* C28: when unify returns an error, and when overlaps returns false, every
\* hole cell is as it was before the call; overlaps is unify(..).is_ok(), on
\* the same store
C28_NoPartialSolution ==
    (last.op = "unify" /\ last.err \notin {Ok, Overflow}) =>
        /\ holes = last.pre
        /\ Unify(last.pre, last.env, last.left, last.right, MaxDepth).err # Ok
        /\ Unify(last.pre, last.env, last.left, last.right, MaxDepth).holes = last.pre

\* C24: as_function on a type that dereferences to an Empty hole h fills h
\* with the Arrow of two new, distinct Empty holes of the kind of h and
\* returns those two; on an Arrow it returns the components of the arrow and
\* fills nothing; on a Tuple, Variable, Bound or Application it returns
\* None and fills nothing
C24_AsFunction ==
    last.op = "as_function" =>
        LET t == Deref(last.pre, last.left)
            n == Len(last.pre)
        IN
        /\ Tag(t) = "Hole" =>
              /\ last.ret = <<"Some", THole(n + 1), THole(n + 2)>>
              /\ Len(holes) = n + 2
              /\ \A i \in {n + 1, n + 2} :
                    IsEmpty(holes, i) /\ holes[i][2] = last.pre[t[2]][2]
              /\ Deref(holes, THole(t[2])) = TArrow(THole(n + 1), THole(n + 2))
              /\ \A i \in 1..n : i # t[2] => holes[i] = last.pre[i]
        /\ Tag(t) = "Arrow" => (last.ret = <<"Some", t[2], t[3]>> /\ holes = last.pre)
        /\ Tag(t) \in {"Tuple", "Variable", "Bound", "Application"} =>
              (last.ret = NoFunction /\ holes = last.pre)

\* as_function was called on a hole solved with an Empty hole of kind
\* Type -> Type
C24_Witness ==
    /\ last.op = "as_function"
    /\ Tag(last.left) = "Hole"
    /\ ~IsEmpty(last.pre, last.left[2])
    /\ Tag(Deref(last.pre, last.left)) = "Hole"
    /\ last.pre[Deref(last.pre, last.left)[2]][2] = TArrow(TType, TType)
    /\ last.ret[1] = "Some"

\* C25: the type of a do block is the type of its last statement, the unit
\* tuple when that is a let or the block is empty; the variable bound by
\* let p = e is what its name means in every later statement, and neither
\* in e nor in the statements before it
C25_DoBlock ==
    last.op = "do" =>
        LET sttms == last.left[2]
            evars == last.right[2]
            n == Len(last.pre)
            new_ty == last.ret[2]
            saw == last.ret[3]
            LetsUpTo(j) == {i \in 1..j : sttms[i][1] = "Let"}
            Binders(j, x) == {i \in 1..(j - 1) : sttms[i][1] = "Let" /\ sttms[i][2] = x}
            Latest(S) == CHOOSE i \in S : \A k \in S : k <= i
            NameOf(j) == IF sttms[j][1] = "Let" THEN sttms[j][3][2] ELSE sttms[j][2][2]
            Scope(j) ==
                IF Binders(j, NameOf(j)) = {} THEN evars[NameOf(j)]
                ELSE THole(n + Cardinality(LetsUpTo(Latest(Binders(j, NameOf(j))))))
            len == Len(sttms)
        IN
        IF last.err = Ok
        THEN /\ Len(saw) = len
             /\ \A j \in 1..len : saw[j] = Scope(j)
             /\ new_ty = IF len = 0 \/ sttms[len][1] = "Let" THEN TTuple(<<>>) ELSE Scope(len)
        ELSE /\ last.err = <<"Panic", "called Option::unwrap() on a None value">>
             /\ Len(saw) \in 1..len
             /\ \A j \in 1..Len(saw) : saw[j] = Scope(j)
             /\ saw[Len(saw)] = <<"Unbound">>

\* a sttms let x = x; x was inferred where x was a Bool before the sttms:
\* the x of the let is the Bool, the x after it the hole of the pattern
C25_Witness ==
    /\ last.op = "do"
    /\ last.err = Ok
    /\ last.right[2]["x"] = TVar("Bool")
    /\ Len(last.left[2]) = 2
    /\ last.left[2][1] = <<"Let", "x", <<"Name", "x">> >>
    /\ last.left[2][2] = <<"Expr", <<"Name", "x">> >>
    /\ last.ret[3][1] = TVar("Bool")
    /\ last.ret[2] = THole(Len(last.pre) + 1)

\* C29: for a projection and a record update, when the type of the
\* expression is a hole solved with a record type applied to an argument, or
\* an Application whose head is a hole solved with the name of a record, the
\* head and the spine found are the record and the argument, and NotARecord
\* is not reported
C29_SeesThroughHoles ==
    (last.op \in {"projection", "update"}) =>
        LET ty == last.left[2]
            t == Deref(last.pre, ty)
            IsRecordHead(head) == Tag(head) = "Variable" /\ head[2] \in {"Box", "Point"}
            SolvedWithRecord ==
                /\ Tag(ty) = "Hole"
                /\ Tag(t) = "Application"
                /\ IsRecordHead(t[2])
            HeadSolved ==
                /\ Tag(ty) = "Application"
                /\ Tag(ty[2]) = "Hole"
                /\ IsRecordHead(Deref(last.pre, ty[2]))
        IN
        /\ SolvedWithRecord =>
              /\ last.ret[4] = t[2]
              /\ last.ret[5] = <<t[3]>>
              /\ \A k \in 1..Len(last.reported) : last.reported[k] # <<"NotARecord">>
        /\ HeadSolved =>
              /\ last.ret[4] = Deref(last.pre, ty[2])
              /\ last.ret[5] = <<ty[3]>>
              /\ \A k \in 1..Len(last.reported) : last.reported[k] # <<"NotARecord">>

\* C21: test returns Ok(None) only when no token was consumed since test
\* was entered; when fun consumed a token before it failed, test returns Err
C21_TestNone ==
    (parser.pc = "tested" /\ parser.res = "None") => parser.tokens = parser.before

\* a turn of the loop of program took at least one token; when top_level
\* failed it reported one diagnostic, pushed one Error, passed the token it
\* failed at and stopped at the next Let, Type, Use or Eof; the loop is
\* left at Eof only
C26_Turn ==
    LET \* the tokens of s from position k on
        Suffix(s, k) == SubSeq(s, k, Len(s))
        \* the tokens after the first of s; after Eof there is Eof
        Passed(s) == IF s = <<>> THEN <<>> ELSE Tail(s)
    IN
    /\ (parser.pc = "program" /\ parser.res # "none") =>
          /\ Len(parser.tokens) < Len(parser.before)
          /\ parser.bumps > parser.since
          /\ Len(parser.top_levels) > 0
          /\ parser.res = "Ok" =>
                /\ parser.top_levels[Len(parser.top_levels)] = "TopLevel"
                /\ parser.reported = parser.noted
          /\ parser.res # "Ok" =>
                /\ parser.res = "Err"
                /\ parser.top_levels[Len(parser.top_levels)] = "Error"
                /\ parser.reported = parser.noted + 1
                /\ (parser.tokens = <<>> \/ Head(parser.tokens) \in {"Let", "Type", "Use"})
                /\ \E k \in 1..(Len(Passed(parser.failed_at)) + 1) :
                      /\ parser.tokens = Suffix(Passed(parser.failed_at), k)
                      /\ \A i \in 1..(k - 1) :
                            Passed(parser.failed_at)[i] \notin {"Let", "Type", "Use"}
    /\ parser.pc = "done" => parser.before = <<>>

C22_InsertThenFind ==
    \A k \in 1..Len(modules.inserts) :
        LET c == modules.inserts[k] IN
        IF Find(c.before, c.path) = <<"None">>
        THEN c.ret = <<"None">> /\ Find(c.after, c.path) = <<"Some", c.id>>
        ELSE c.ret = Find(c.before, c.path) /\ c.after = c.before

\* C30: TypeDecl::declare and declare(context, program, path) return with
\* current and module as they found them, and current is not empty when
\* Modules::current is called, in any sequence of declare and declare_main
C30_ScopeRestored ==
    /\ \A k \in 1..Len(modules.type_decls) :
          /\ modules.type_decls[k].after_current = modules.type_decls[k].before_current
          /\ modules.type_decls[k].after_module = modules.type_decls[k].before_module
    /\ (modules.op.name = "declare" /\ modules.pc = "ready") =>
          /\ modules.current = modules.op.current
          /\ modules.module = modules.op.module
    /\ modules.pc # "unwrap on None in current"

====
